---- MODULE Spec2Model ----
(***************************************************************************)
(* Verification model of cl-nestjs-alicloud-kms: the in-memory cache       *)
(* engine (CacheService) and the secrets client (KmsService) that sits in  *)
(* front of the remote KMS API.                                            *)
(*                                                                         *)
(* Time is the value of Date.now() in milliseconds.  Strings that the code *)
(* takes apart (cache keys, error messages) are sequences of one-character *)
(* strings; opaque strings (cached values, secret data) are TLA+ strings.  *)
(***************************************************************************)
EXTENDS Integers, Sequences, FiniteSets, TLC

VARIABLES
  now,        \* Date.now()
  config,     \* CacheService.config (Required<SecretCacheOptions>)
  cache,      \* CacheService.cache: Map in insertion order, <<[key, item]>>
  hitCount,   \* CacheService.hitCount
  missCount,  \* CacheService.missCount
  timerOn,    \* CacheService.cleanupTimer is set
  nextSweep,  \* time at which the setInterval callback is next due
  call,       \* the cache operation performed last: [op, key]
  ret,        \* what that operation returned
  events,     \* the emitEvent calls of that operation, in order
  eventListeners, \* CacheService.eventListeners: Set in insertion order
  delivery,   \* what that operation's emitEvent calls did with the listeners
  fetch,      \* the KmsService.getSecretValue calls made so far, in call order
  multi,      \* the KmsService.getMultipleSecrets call
  batchCall,  \* the KmsService.getSecretsWithConfig call
  service,    \* the KmsService.warmupCache and checkConnection calls
  inputs      \* what the callers and the remote KMS draw their values from

cacheVars == <<config, cache, hitCount, missCount, timerOn, nextSweep, call, ret, events,
              eventListeners, delivery>>
clientVars == <<fetch, multi, batchCall, service>>
vars == <<now, config, cache, hitCount, missCount, timerOn, nextSweep, call, ret,
          events, eventListeners, delivery, fetch, multi, batchCall, service, inputs>>

-----------------------------------------------------------------------------
(* Bounds of the model *)

MaxTime == 1001         \* the clock stops here
MaxRequests == 1        \* cap on hitCount + missCount
MaxCalls == 2           \* cap on the direct getSecretValue calls

(* Program constants *)

DefaultTtl == 300
DefaultMaxSize == 1000
MsPerSecond == 1000
CleanupInterval == 60000
MaxRetries == 3
BaseDelay == 1000
JitterRange == 1000
MaxConcurrency == 10
MaxNameLength == 255

DefaultKeyPrefix == <<"k", "m", "s", "_", "s", "e", "c", "r", "e", "t", ":">>

-----------------------------------------------------------------------------
(* Values of the model *)

NoError == 0                  \* no error was thrown

Undefined == "undefined"      \* a missing optional argument or field
Null == "null"
True == "true"
False == "false"
EmptyString == <<>>

Keys == {<<"a">>, <<"b">>, <<"c">>}
CacheValues == {"v1", "v2"}
\* an optional number is <<>> when it is undefined and <<n>> otherwise
NoNumber == <<>>
TtlArgs == {NoNumber, <<1>>}
\* an optional string is the empty string when it is undefined
Options(enabled, ttl, maxSize, keyPrefix) ==
  [enabled |-> enabled, ttl |-> ttl, maxSize |-> maxSize, keyPrefix |-> keyPrefix]
DisabledOptions == Options(FALSE, NoNumber, NoNumber, EmptyString)

\* a test that only asks whether the number was supplied (x ?? fallback)
SuppliedNumber(x) == x # NoNumber

\* JavaScript truthiness of an optional number and of a string
TruthyNumber(x) == x # NoNumber /\ x[1] # 0
TruthyString(s) == s # EmptyString

-----------------------------------------------------------------------------
(* String helpers *)

StartsWith(s, p) == Len(s) >= Len(p) /\ SubSeq(s, 1, Len(p)) = p

Substring(s, from) == SubSeq(s, from + 1, Len(s))

-----------------------------------------------------------------------------
(* The JavaScript Map that backs the cache *)

MapIndex(m, k) ==
  IF \E i \in 1..Len(m) : m[i].key = k
  THEN CHOOSE i \in 1..Len(m) : m[i].key = k
  ELSE 0

MapHas(m, k) == MapIndex(m, k) # 0

MapGet(m, k) == m[MapIndex(m, k)].item

MapSet(m, k, item) ==
  IF MapHas(m, k)
  THEN [m EXCEPT ![MapIndex(m, k)] = [key |-> k, item |-> item]]
  ELSE Append(m, [key |-> k, item |-> item])

MapDelete(m, k) ==
  IF MapHas(m, k)
  THEN SubSeq(m, 1, MapIndex(m, k) - 1) \o SubSeq(m, MapIndex(m, k) + 1, Len(m))
  ELSE m

MapKeys(m) == {m[i].key : i \in 1..Len(m)}

-----------------------------------------------------------------------------
(* CacheService *)

NewConfig(opts) ==
  [enabled |-> opts.enabled,
   ttl |-> IF TruthyNumber(opts.ttl) THEN opts.ttl[1] ELSE DefaultTtl,
   maxSize |-> IF TruthyNumber(opts.maxSize) THEN opts.maxSize[1] ELSE DefaultMaxSize,
   keyPrefix |-> IF TruthyString(opts.keyPrefix) THEN opts.keyPrefix ELSE DefaultKeyPrefix]

generateKey(key) == config.keyPrefix \o key

\* an expiry test that already fires at the expiry instant
isExpired_AtExpiry(item) == now >= item.expiresAt

isExpired(item) == now > item.expiresAt

\* an event key that keeps the prefix of the stored key
originalKey_Prefixed(cacheKey) == cacheKey

originalKey(cacheKey) ==
  IF StartsWith(cacheKey, config.keyPrefix)
  THEN Substring(cacheKey, Len(config.keyPrefix))
  ELSE cacheKey

Event(type, key, value) == [type |-> type, key |-> key, value |-> value]

\* the listeners whose body throws
ThrowingListeners == {"bad"}

\* no emitEvent call yet: what each listener was called with, the number of
\* logger.warn calls, and whether an exception left emitEvent
NoDelivery(ls) ==
  [received |-> [l \in {ls[i] : i \in 1..Len(ls)} |-> <<>>], warned |-> 0, escaped |-> FALSE]

\* a catch block that lets the listener's exception go on
Caught_Rethrows(d) == [d EXCEPT !.escaped = TRUE]

\* catch (error) { this.logger.warn(...) }
Caught(d) == [d EXCEPT !.warned = @ + 1]

\* for (const listener of this.eventListeners) try { listener(...) } catch ...
RECURSIVE emitEvent(_, _, _)
emitEvent(ls, d, e) ==
  IF ls = <<>> \/ d.escaped THEN d
  ELSE LET called == [d EXCEPT !.received[Head(ls)] = Append(@, e)]
       IN emitEvent(Tail(ls), IF Head(ls) \in ThrowingListeners THEN Caught(called) ELSE called, e)

\* the emitEvent calls of one operation, in order
RECURSIVE Dispatch(_, _, _)
Dispatch(ls, d, evs) ==
  IF evs = <<>> THEN d ELSE Dispatch(ls, emitEvent(ls, d, Head(evs)), Tail(evs))

\* the listeners see the events of the operation; the set itself stays
Notify ==
  /\ delivery' = Dispatch(eventListeners, NoDelivery(eventListeners), events')
  /\ UNCHANGED eventListeners

\* a scan that orders the entries by createdAt instead of lastAccessedAt
RECURSIVE ScanOldest_ByCreatedAt(_, _, _, _)
ScanOldest_ByCreatedAt(m, i, oldestKey, oldestTime) ==
  IF i > Len(m) THEN oldestKey
  ELSE IF m[i].item.createdAt < oldestTime
       THEN ScanOldest_ByCreatedAt(m, i + 1, m[i].key, m[i].item.createdAt)
       ELSE ScanOldest_ByCreatedAt(m, i + 1, oldestKey, oldestTime)

RECURSIVE ScanOldest(_, _, _, _)
ScanOldest(m, i, oldestKey, oldestTime) ==
  IF i > Len(m) THEN oldestKey
  ELSE IF m[i].item.lastAccessedAt < oldestTime
       THEN ScanOldest(m, i + 1, m[i].key, m[i].item.lastAccessedAt)
       ELSE ScanOldest(m, i + 1, oldestKey, oldestTime)

\* the key evictLeastRecentlyUsed removes, EmptyString when it removes none
evictLeastRecentlyUsed(m) == ScanOldest(m, 1, EmptyString, now)

NewItem(value, customTtl) ==
  [value |-> value,
   createdAt |-> now,
   expiresAt |-> now + (IF TruthyNumber(customTtl) THEN customTtl[1] ELSE config.ttl) * MsPerSecond,
   accessCount |-> 0,
   lastAccessedAt |-> now]

\* a capacity test that does not ask whether the key is already stored
mustEvict_AnyKey(m, cacheKey) == Len(m) >= config.maxSize

\* set: this.cache.size >= this.config.maxSize && !this.cache.has(cacheKey)
mustEvict(m, cacheKey) == Len(m) >= config.maxSize /\ ~MapHas(m, cacheKey)

\* the store after CacheService.set
SetStore(m, key, value, customTtl) ==
  LET cacheKey == generateKey(key)
      oldest == evictLeastRecentlyUsed(m)
      evicting == mustEvict(m, cacheKey)
      kept == IF evicting /\ TruthyString(oldest) THEN MapDelete(m, oldest) ELSE m
  IN MapSet(kept, cacheKey, NewItem(value, customTtl))

\* the emitEvent calls of CacheService.set
SetEvents(m, key, value) ==
  LET cacheKey == generateKey(key)
      oldest == evictLeastRecentlyUsed(m)
      evicting == mustEvict(m, cacheKey)
  IN (IF evicting /\ TruthyString(oldest)
      THEN <<Event("delete", originalKey(oldest), Undefined)>> ELSE <<>>)
     \o <<Event("set", key, value)>>

\* a set that stores although the cache is disabled
CacheSet_IgnoresDisabled(key, value, customTtl) ==
  /\ call' = [op |-> "set", key |-> key]
  /\ ret' = Undefined
  /\ cache' = SetStore(cache, key, value, customTtl)
  /\ events' = SetEvents(cache, key, value)
  /\ UNCHANGED <<config, hitCount, missCount, timerOn, nextSweep>>
  /\ Notify

CacheSet(key, value, customTtl) ==
  /\ call' = [op |-> "set", key |-> key]
  /\ ret' = Undefined
  /\ IF ~config.enabled
     THEN /\ events' = <<>>
          /\ UNCHANGED <<cache, hitCount, missCount>>
     ELSE /\ cache' = SetStore(cache, key, value, customTtl)
          /\ events' = SetEvents(cache, key, value)
          /\ UNCHANGED <<hitCount, missCount>>
  /\ UNCHANGED <<config, timerOn, nextSweep>>
  /\ Notify

\* a hit that refreshes the time of the last access but not the access count
touch_KeepsCount(item) == [item EXCEPT !.lastAccessedAt = now]

\* get on a live entry: item.accessCount++; item.lastAccessedAt = Date.now()
touch(item) == [item EXCEPT !.accessCount = @ + 1, !.lastAccessedAt = now]

CacheGet(key) ==
  LET cacheKey == generateKey(key) IN
  /\ call' = [op |-> "get", key |-> key]
  /\ IF ~config.enabled
     THEN /\ ret' = Null
          /\ events' = <<>>
          /\ UNCHANGED <<cache, hitCount, missCount>>
     ELSE IF ~MapHas(cache, cacheKey)
     THEN /\ missCount' = missCount + 1
          /\ events' = <<Event("miss", key, Undefined)>>
          /\ ret' = Null
          /\ UNCHANGED <<cache, hitCount>>
     ELSE IF isExpired(MapGet(cache, cacheKey))
     THEN /\ cache' = MapDelete(cache, cacheKey)
          /\ missCount' = missCount + 1
          /\ events' = <<Event("expire", key, Undefined)>>
          /\ ret' = Null
          /\ UNCHANGED hitCount
     ELSE LET item == MapGet(cache, cacheKey) IN
          /\ cache' = MapSet(cache, cacheKey, touch(item))
          /\ hitCount' = hitCount + 1
          /\ events' = <<Event("hit", key, item.value)>>
          /\ ret' = item.value
          /\ UNCHANGED missCount
  /\ UNCHANGED <<config, timerOn, nextSweep>>
  /\ Notify

CacheDelete(key) ==
  LET cacheKey == generateKey(key) IN
  /\ call' = [op |-> "delete", key |-> key]
  /\ IF ~config.enabled
     THEN /\ ret' = False
          /\ events' = <<>>
          /\ UNCHANGED cache
     ELSE /\ cache' = MapDelete(cache, cacheKey)
          /\ ret' = IF MapHas(cache, cacheKey) THEN True ELSE False
          /\ events' = IF MapHas(cache, cacheKey)
                       THEN <<Event("delete", key, Undefined)>> ELSE <<>>
  /\ UNCHANGED <<config, hitCount, missCount, timerOn, nextSweep>>
  /\ Notify

\* a clear that empties the store but keeps the counters
CacheClear_KeepsCounters ==
  /\ call' = [op |-> "clear", key |-> EmptyString]
  /\ ret' = Undefined
  /\ IF ~config.enabled
     THEN /\ events' = <<>>
          /\ UNCHANGED cache
     ELSE /\ cache' = <<>>
          /\ events' = <<Event("clear", <<"a", "l", "l">>, Undefined)>>
  /\ UNCHANGED <<config, hitCount, missCount, timerOn, nextSweep>>
  /\ Notify

CacheClear ==
  /\ call' = [op |-> "clear", key |-> EmptyString]
  /\ ret' = Undefined
  /\ IF ~config.enabled
     THEN /\ events' = <<>>
          /\ UNCHANGED <<cache, hitCount, missCount>>
     ELSE /\ cache' = <<>>
          /\ hitCount' = 0
          /\ missCount' = 0
          /\ events' = <<Event("clear", <<"a", "l", "l">>, Undefined)>>
  /\ UNCHANGED <<config, timerOn, nextSweep>>
  /\ Notify

\* a has that reports an expired entry absent but leaves it in the store
CacheHas_KeepsExpired(key) ==
  LET cacheKey == generateKey(key) IN
  /\ call' = [op |-> "has", key |-> key]
  /\ events' = <<>>
  /\ ret' = IF config.enabled /\ MapHas(cache, cacheKey)
                /\ ~isExpired(MapGet(cache, cacheKey))
             THEN True ELSE False
  /\ UNCHANGED <<config, cache, hitCount, missCount, timerOn, nextSweep>>
  /\ Notify

CacheHas(key) ==
  LET cacheKey == generateKey(key) IN
  /\ call' = [op |-> "has", key |-> key]
  /\ events' = <<>>
  /\ IF ~config.enabled
     THEN /\ ret' = False
          /\ UNCHANGED cache
     ELSE IF ~MapHas(cache, cacheKey)
     THEN /\ ret' = False
          /\ UNCHANGED cache
     ELSE IF isExpired(MapGet(cache, cacheKey))
     THEN /\ cache' = MapDelete(cache, cacheKey)
          /\ ret' = False
     ELSE /\ ret' = True
          /\ UNCHANGED cache
  /\ UNCHANGED <<config, hitCount, missCount, timerOn, nextSweep>>
  /\ Notify

RECURSIVE ExpiredKeys(_, _)
ExpiredKeys(m, i) ==
  IF i > Len(m) THEN <<>>
  ELSE (IF now > m[i].item.expiresAt THEN <<m[i].key>> ELSE <<>>) \o ExpiredKeys(m, i + 1)

RECURSIVE DeleteAll(_, _)
DeleteAll(m, ks) ==
  IF ks = <<>> THEN m ELSE DeleteAll(MapDelete(m, Head(ks)), Tail(ks))

\* the setInterval callback of startCleanupTimer
cleanupExpired ==
  LET keysToDelete == ExpiredKeys(cache, 1) IN
  /\ timerOn
  /\ now >= nextSweep
  /\ nextSweep' = nextSweep + CleanupInterval
  /\ call' = [op |-> "sweep", key |-> EmptyString]
  /\ ret' = Undefined
  /\ cache' = DeleteAll(cache, keysToDelete)
  /\ events' = [i \in 1..Len(keysToDelete) |->
                  Event("expire", originalKey(keysToDelete[i]), Undefined)]
  /\ UNCHANGED <<config, hitCount, missCount, timerOn>>
  /\ Notify

\* getKeys(): the stored keys without the prefix, in insertion order
getKeys(m) == [i \in 1..Len(m) |-> originalKey(m[i].key)]

\* the property name whose assignment on a plain object ({}) runs the
\* inherited accessor of Object.prototype instead of creating a property
ProtoKey == <<"_", "_", "p", "r", "o", "t", "o", "_", "_">>

\* result[key] = value on the plain object mget builds (the values of the
\* model are strings, which the accessor of '__proto__' ignores)
SetResult(obj, key, value) ==
  IF key = ProtoKey THEN obj
  ELSE [k \in DOMAIN obj \cup {key} |-> IF k = key THEN value ELSE obj[k]]

\* the loop of mget: one get per key, on the state the previous one left
RECURSIVE MgetLoop(_, _)
MgetLoop(keys, st) ==
  IF keys = <<>> THEN st
  ELSE LET key == Head(keys)
           cacheKey == generateKey(key)
           item == MapGet(st.cache, cacheKey)
       IN MgetLoop(Tail(keys),
            IF ~MapHas(st.cache, cacheKey)
            THEN [st EXCEPT !.missCount = @ + 1,
                            !.events = Append(@, Event("miss", key, Undefined))]
            ELSE IF isExpired(item)
            THEN [st EXCEPT !.cache = MapDelete(@, cacheKey),
                            !.missCount = @ + 1,
                            !.events = Append(@, Event("expire", key, Undefined))]
            ELSE [st EXCEPT !.cache = MapSet(@, cacheKey, touch(item)),
                            !.hitCount = @ + 1,
                            !.events = Append(@, Event("hit", key, item.value)),
                            !.result = SetResult(@, key, item.value)])

CacheMget(keys) ==
  LET st == MgetLoop(keys, [cache |-> cache, hitCount |-> hitCount, missCount |-> missCount,
                            events |-> <<>>, result |-> <<>>])
  IN
  /\ call' = [op |-> "mget", key |-> EmptyString]
  /\ IF ~config.enabled
     THEN /\ ret' = <<>>
          /\ events' = <<>>
          /\ UNCHANGED <<cache, hitCount, missCount>>
     ELSE /\ ret' = st.result
          /\ events' = st.events
          /\ cache' = st.cache
          /\ hitCount' = st.hitCount
          /\ missCount' = st.missCount
  /\ UNCHANGED <<config, timerOn, nextSweep>>
  /\ Notify

\* the loop of mset: one set per entry of Object.entries(data)
RECURSIVE MsetLoop(_, _, _)
MsetLoop(entries, customTtl, st) ==
  IF entries = <<>> THEN st
  ELSE MsetLoop(Tail(entries), customTtl,
         [cache |-> SetStore(st.cache, Head(entries).key, Head(entries).value, customTtl),
          events |-> st.events \o SetEvents(st.cache, Head(entries).key, Head(entries).value)])

CacheMset(entries, customTtl) ==
  LET st == MsetLoop(entries, customTtl, [cache |-> cache, events |-> <<>>]) IN
  /\ call' = [op |-> "mset", key |-> EmptyString]
  /\ ret' = Undefined
  /\ IF ~config.enabled
     THEN /\ events' = <<>>
          /\ UNCHANGED cache
     ELSE /\ events' = st.events
          /\ cache' = st.cache
  /\ UNCHANGED <<config, hitCount, missCount, timerOn, nextSweep>>
  /\ Notify

\* a count of the keys of the argument, whether or not delete removed them
MdelLoop_CountsAll(keys, st) == [st EXCEPT !.deletedCount = Len(keys)]

\* the loop of mdel: one delete per key, counting those that returned true
RECURSIVE MdelLoop(_, _)
MdelLoop(keys, st) ==
  IF keys = <<>> THEN st
  ELSE LET key == Head(keys)
           cacheKey == generateKey(key)
       IN MdelLoop(Tail(keys),
            IF MapHas(st.cache, cacheKey)
            THEN [cache |-> MapDelete(st.cache, cacheKey),
                  events |-> Append(st.events, Event("delete", key, Undefined)),
                  deletedCount |-> st.deletedCount + 1]
            ELSE st)

CacheMdel(keys) ==
  LET st == MdelLoop(keys, [cache |-> cache, events |-> <<>>, deletedCount |-> 0]) IN
  /\ call' = [op |-> "mdel", key |-> EmptyString]
  /\ IF ~config.enabled
     THEN /\ ret' = 0
          /\ events' = <<>>
          /\ UNCHANGED cache
     ELSE /\ ret' = st.deletedCount
          /\ events' = st.events
          /\ cache' = st.cache
  /\ UNCHANGED <<config, hitCount, missCount, timerOn, nextSweep>>
  /\ Notify

CacheGetKeys ==
  /\ call' = [op |-> "getKeys", key |-> EmptyString]
  /\ ret' = IF ~config.enabled THEN <<>> ELSE getKeys(cache)
  /\ events' = <<>>
  /\ UNCHANGED <<config, cache, hitCount, missCount, timerOn, nextSweep>>
  /\ Notify

\* JSON.stringify(item.value).length for the string values of the model:
\* the characters of the value between two double quotes
stringifiedLength(value) ==
  2 + (IF value = "" THEN 0 ELSE IF value = " " THEN 1 ELSE 2)

\* a rounding that drops the digits after the fourth
toFixed4_Truncates(hits, total) == (hits * 10000) \div total

\* Number((hits / total).toFixed(4)), in ten-thousandths: the nearest one,
\* the larger of the two when hits / total lies half-way
toFixed4(hits, total) == (2 * hits * 10000 + total) \div (2 * total)

RECURSIVE memoryUsage(_)
\* the loop of getStats over this.cache.entries()
memoryUsage(m) ==
  IF m = <<>> THEN 0
  ELSE Len(Head(m).key) * 2 + stringifiedLength(Head(m).item.value) * 2 + 64
       + memoryUsage(Tail(m))

\* a count that leaves out the entries that have expired
totalKeys_LiveOnly(m) == Len(SelectSeq(m, LAMBDA e : ~isExpired(e.item)))

\* getStats: this.cache.size
totalKeys(m) == Len(m)

\* the CacheStats that getStats returns, hitRate in ten-thousandths
getStats ==
  [totalKeys |-> totalKeys(cache),
   hitCount |-> hitCount,
   missCount |-> missCount,
   hitRate |-> IF hitCount + missCount > 0 THEN toFixed4(hitCount, hitCount + missCount) ELSE 0,
   totalMemoryUsage |-> memoryUsage(cache)]

CacheGetStats ==
  /\ call' = [op |-> "getStats", key |-> EmptyString]
  /\ ret' = getStats
  /\ events' = <<>>
  /\ UNCHANGED <<config, cache, hitCount, missCount, timerOn, nextSweep>>
  /\ Notify

\* addEventListener: Set.prototype.add
addEventListener(l) ==
  /\ eventListeners' = IF \E i \in 1..Len(eventListeners) : eventListeners[i] = l
                       THEN eventListeners ELSE Append(eventListeners, l)
  /\ UNCHANGED <<config, cache, hitCount, missCount, timerOn, nextSweep, call, ret, events,
                 delivery>>

\* removeEventListener: Set.prototype.delete
removeEventListener(l) ==
  /\ eventListeners' = SelectSeq(eventListeners, LAMBDA x : x # l)
  /\ UNCHANGED <<config, cache, hitCount, missCount, timerOn, nextSweep, call, ret, events,
                 delivery>>

\* a teardown that leaves the interval timer running
stopCleanupTimer_KeepsTimer(on) == on

\* clearInterval(this.cleanupTimer); this.cleanupTimer = undefined
stopCleanupTimer(on) == FALSE

\* onModuleDestroy: stop the timer, clear(), forget the listeners
onModuleDestroy ==
  /\ call' = [op |-> "destroy", key |-> EmptyString]
  /\ ret' = Undefined
  /\ timerOn' = stopCleanupTimer(timerOn)
  /\ IF ~config.enabled
     THEN /\ events' = <<>>
          /\ UNCHANGED <<cache, hitCount, missCount>>
     ELSE /\ cache' = <<>>
          /\ hitCount' = 0
          /\ missCount' = 0
          /\ events' = <<Event("clear", <<"a", "l", "l">>, Undefined)>>
  /\ delivery' = Dispatch(eventListeners, NoDelivery(eventListeners), events')
  /\ eventListeners' = <<>>
  /\ UNCHANGED <<config, nextSweep>>

-----------------------------------------------------------------------------
(* The clock *)

\* Date.now() is read at whole seconds and one millisecond after them
TickSteps == {1, MsPerSecond}

Tick ==
  /\ \E d \in TickSteps :
       /\ now + d <= MaxTime
       /\ d = 1 => now % MsPerSecond = 0
       /\ now' = now + d
  /\ UNCHANGED cacheVars
  /\ UNCHANGED clientVars
  /\ UNCHANGED inputs

\* the number of sweep periods the clock may run through
MaxSweeps == 1

\* time passes until the interval of the sweep timer has elapsed
Elapse ==
  /\ now < nextSweep
  /\ nextSweep <= MaxSweeps * CleanupInterval
  /\ now' = nextSweep
  /\ UNCHANGED cacheVars
  /\ UNCHANGED clientVars
  /\ UNCHANGED inputs

-----------------------------------------------------------------------------
(* The cache engine on its own *)

\* what the callers pass and what the remote KMS answers:
\*   keys, values, ttls   arguments of the direct cache operations
\*   names, skips, calls  arguments and number of the getSecretValue calls
\*   lists                arguments of getMultipleSecrets
\*   responses            bodies the remote KMS resolves with
\*   errors, failing      errors it rejects with, and for which secrets
\*   jitters              values of Math.random() * 1000
\*   keyLists, entries    arguments of mget / mdel and of mset
\*   listeners            the listeners that can be registered
\*   configs              arguments of getSecretsWithConfig
\*   options              the SecretCacheOptions the cache was constructed with
\*   maxRetries           KmsModuleConfig.maxRetries, an optional number
\*   defaultSecretName    KmsModuleConfig.defaultSecretName, an optional string
\*   initError            the error initPromise rejects with, NoError when the
\*                        KMS client was created
\*   warmups              arguments of warmupCache
\*   cacheInjected        whether a CacheService was injected into KmsService
\*                        (without one, the cache variables stand for nothing
\*                        and config.enabled is FALSE)
NoInputs ==
  [keys |-> {}, values |-> {}, ttls |-> {}, names |-> {}, skips |-> {}, calls |-> 0,
   lists |-> {}, responses |-> {}, errors |-> {}, failing |-> {}, jitters |-> {},
   keyLists |-> {}, entries |-> {}, listeners |-> {}, configs |-> {},
   options |-> DisabledOptions, maxRetries |-> NoNumber,
   defaultSecretName |-> EmptyString, initError |-> NoError, warmups |-> {},
   cacheInjected |-> TRUE]

CacheInputs(keys, values, ttls) ==
  [NoInputs EXCEPT !.keys = keys, !.values = values, !.ttls = ttls]

NoCall == [op |-> "new", key |-> EmptyString]

\* the state after new CacheService(opts)
InitCache(optionSet) ==
  /\ now = 0
  /\ \E opts \in optionSet : config = NewConfig(opts)
  /\ cache = <<>>
  /\ hitCount = 0
  /\ missCount = 0
  /\ timerOn = config.enabled
  /\ nextSweep = CleanupInterval
  /\ call = NoCall
  /\ ret = Undefined
  /\ events = <<>>
  /\ eventListeners = <<>>
  /\ delivery = NoDelivery(<<>>)

NoMulti ==
  [pc |-> "idle", secretNames |-> <<>>, unique |-> <<>>, batches |-> <<>>, batch |-> 0,
   results |-> <<>>, errors |-> <<>>, raised |-> NoError]

NoBatch ==
  [pc |-> "idle", entries |-> <<>>, index |-> 0, success |-> <<>>, failed |-> <<>>,
   raised |-> NoError, named |-> <<>>, errorLogs |-> 0, warnLogs |-> 0,
   total |-> 0, successCount |-> 0, failureCount |-> 0]

NoService ==
  [warmup |-> [pc |-> "idle", secretNames |-> <<>>, force |-> FALSE, secretsToLoad |-> <<>>,
               warns |-> 0, raised |-> NoError],
   check |-> [pc |-> "idle", warns |-> 0, errorLogs |-> 0],
   manage |-> [op |-> "none", result |-> Undefined]]

InitClientIdle ==
  /\ fetch = <<>>
  /\ multi = NoMulti
  /\ batchCall = NoBatch
  /\ service = NoService

Set == \E k \in inputs.keys, v \in inputs.values, t \in inputs.ttls :
         CacheSet(k, v, t) /\ UNCHANGED <<now, inputs>> /\ UNCHANGED clientVars

Get == \E k \in inputs.keys :
         /\ hitCount + missCount < MaxRequests
         /\ CacheGet(k) /\ UNCHANGED <<now, inputs>> /\ UNCHANGED clientVars

Delete == \E k \in inputs.keys :
            CacheDelete(k) /\ UNCHANGED <<now, inputs>> /\ UNCHANGED clientVars

Clear == CacheClear /\ UNCHANGED <<now, inputs>> /\ UNCHANGED clientVars

Has == \E k \in inputs.keys :
         CacheHas(k) /\ UNCHANGED <<now, inputs>> /\ UNCHANGED clientVars

Sweep == cleanupExpired /\ UNCHANGED <<now, inputs>> /\ UNCHANGED clientVars

Next == Set \/ Get \/ Delete \/ Clear \/ Has \/ Tick

Mget == \E ks \in inputs.keyLists :
          /\ hitCount + missCount < MaxRequests
          /\ CacheMget(ks) /\ UNCHANGED <<now, inputs>> /\ UNCHANGED clientVars

Mset == \E es \in inputs.entries, t \in inputs.ttls :
          CacheMset(es, t) /\ UNCHANGED <<now, inputs>> /\ UNCHANGED clientVars

Mdel == \E ks \in inputs.keyLists :
          CacheMdel(ks) /\ UNCHANGED <<now, inputs>> /\ UNCHANGED clientVars

GetKeys == CacheGetKeys /\ UNCHANGED <<now, inputs>> /\ UNCHANGED clientVars

AddListener == \E l \in inputs.listeners :
                 addEventListener(l) /\ UNCHANGED <<now, inputs>> /\ UNCHANGED clientVars

RemoveListener == \E l \in inputs.listeners :
                    removeEventListener(l) /\ UNCHANGED <<now, inputs>> /\ UNCHANGED clientVars

Destroy == onModuleDestroy /\ UNCHANGED <<now, inputs>> /\ UNCHANGED clientVars

Stats == CacheGetStats /\ UNCHANGED <<now, inputs>> /\ UNCHANGED clientVars

\* the cap on hitCount + missCount where the hit rate is observed
MaxReads == 3

Read == \E k \in inputs.keys :
          /\ hitCount + missCount < MaxReads
          /\ CacheGet(k) /\ UNCHANGED <<now, inputs>> /\ UNCHANGED clientVars

NextStats == Set \/ Read \/ Delete \/ Clear \/ Stats \/ Tick

\* two keys with a ttl of 1 s, read up to MaxReads times between clears
InitStats ==
  /\ InitCache({Options(TRUE, <<1>>, <<2>>, <<"p", ":">>)})
  /\ InitClientIdle
  /\ inputs = CacheInputs({<<"a">>, <<"b">>}, {"v1"}, {NoNumber})

SpecStats == InitStats /\ [][NextStats]_vars

Entry(key, value) == [key |-> key, value |-> value]

NextBulk ==
  Set \/ Get \/ Delete \/ Clear \/ Has \/ Mget \/ Mset \/ Mdel \/ GetKeys \/ Tick

\* single and bulk operations on a cache of two slots and on a disabled one
InitBulk ==
  /\ InitCache({Options(TRUE, <<1>>, <<2>>, <<"p", ":">>), DisabledOptions})
  /\ InitClientIdle
  /\ inputs = [NoInputs EXCEPT
        !.keys = {<<"a">>, <<"b">>}, !.values = {"v1"}, !.ttls = {NoNumber},
        !.keyLists = {<<<<"a">>, <<"b">>>>, <<<<"c">>, <<"a">>, <<"a">>>>},
        !.entries = {<<Entry(<<"a">>, "v1"), Entry(<<"c">>, "v2")>>}]

SpecBulk == InitBulk /\ [][NextBulk]_vars

NextListeners ==
  \/ Set \/ Get \/ Delete \/ Clear \/ AddListener \/ RemoveListener
  \/ Sweep \/ Destroy \/ Elapse

\* the life of a cache of one slot with up to two listeners, one of which
\* throws: operations, the sweep after a period, teardown
InitListeners ==
  /\ InitCache({Options(TRUE, <<1>>, <<1>>, <<"p", ":">>)})
  /\ InitClientIdle
  /\ inputs = [NoInputs EXCEPT
        !.keys = {<<"a">>, <<"b">>}, !.values = {"v1"}, !.ttls = {NoNumber},
        !.listeners = {"bad", "L1"}]

SpecListeners == InitListeners /\ [][NextListeners]_vars

NextSweep == Set \/ Get \/ Has \/ Sweep \/ Destroy \/ Elapse

\* the sweep over a cache of two slots whose entries live for 1 s, written
\* and read before and after the sweep period has elapsed, and over a
\* disabled cache
InitSweep ==
  /\ InitCache({Options(TRUE, <<1>>, <<2>>, <<"p", ":">>), DisabledOptions})
  /\ InitClientIdle
  /\ inputs = CacheInputs({<<"a">>, <<"b">>}, {"v1"}, {NoNumber})

SpecSweep == InitSweep /\ [][NextSweep]_vars

\* capacity: three keys compete for two slots
Init ==
  /\ InitCache({Options(TRUE, <<1>>, <<2>>, <<"p", ":">>), DisabledOptions})
  /\ InitClientIdle
  /\ inputs = CacheInputs(Keys, {"v1"}, {NoNumber})

Spec == Init /\ [][Next]_vars

\* expiry: two keys, two values, the default ttl of 300 s and an override of
\* 1 s, one slot
InitTtl ==
  /\ InitCache({Options(TRUE, NoNumber, <<1>>, EmptyString), DisabledOptions})
  /\ InitClientIdle
  /\ inputs = CacheInputs({<<"a">>, <<"b">>}, CacheValues, TtlArgs)

SpecTtl == InitTtl /\ [][Next]_vars

\* ttl settings: a cache constructed without a ttl, with a ttl of 0 and with
\* a ttl of 2 s, and sets that pass no override, an override of 0 or one of 1 s
InitOverride ==
  /\ InitCache({Options(TRUE, NoNumber, <<1>>, EmptyString), Options(TRUE, <<0>>, <<1>>, EmptyString),
                Options(TRUE, <<2>>, <<1>>, EmptyString)})
  /\ InitClientIdle
  /\ \E opts \in {Options(TRUE, NoNumber, <<1>>, EmptyString),
                   Options(TRUE, <<0>>, <<1>>, EmptyString),
                   Options(TRUE, <<2>>, <<1>>, EmptyString)},
        customTtl \in {NoNumber, <<0>>, <<1>>} :
        /\ config = NewConfig(opts)
        /\ inputs = [CacheInputs({<<"a">>, <<"b">>}, {"v1"}, {customTtl}) EXCEPT !.options = opts]

SpecOverride == InitOverride /\ [][Next]_vars

-----------------------------------------------------------------------------
(* utils: getErrorMessage and validateSecretName *)

UpperCase == <<"A", "B", "C", "D", "E", "F", "G", "H", "I", "J", "K", "L", "M", "N", "O", "P", "Q", "R", "S", "T", "U", "V", "W", "X", "Y", "Z">>
LowerCase == <<"a", "b", "c", "d", "e", "f", "g", "h", "i", "j", "k", "l", "m", "n", "o", "p", "q", "r", "s", "t", "u", "v", "w", "x", "y", "z">>
Digits == <<"0", "1", "2", "3", "4", "5", "6", "7", "8", "9">>
WhiteSpace == {" "}

\* /^[a-zA-Z0-9/_.-]+$/
ValidNameChars ==
  {UpperCase[i] : i \in 1..Len(UpperCase)} \cup {LowerCase[i] : i \in 1..Len(LowerCase)}
  \cup {Digits[i] : i \in 1..Len(Digits)} \cup {"/", "_", ".", "-"}

toLowerCaseChar(c) ==
  IF \E i \in 1..Len(UpperCase) : UpperCase[i] = c
  THEN LowerCase[CHOOSE i \in 1..Len(UpperCase) : UpperCase[i] = c]
  ELSE c

toLowerCase(s) == [i \in 1..Len(s) |-> toLowerCaseChar(s[i])]

includes(s, pattern) ==
  \E i \in 1..(Len(s) - Len(pattern) + 1) : SubSeq(s, i, i + Len(pattern) - 1) = pattern

RECURSIVE trimStart(_)
trimStart(s) == IF s # <<>> /\ Head(s) \in WhiteSpace THEN trimStart(Tail(s)) ELSE s

RECURSIVE trimEnd(_)
trimEnd(s) ==
  IF s # <<>> /\ s[Len(s)] \in WhiteSpace THEN trimEnd(SubSeq(s, 1, Len(s) - 1)) ELSE s

trim(s) == trimEnd(trimStart(s))

\* the values a rejected promise or a throw can carry: an Error with its
\* message, a bare string, or something else with its String() conversion
ErrorTable == <<
  [kind |-> "Error", text |-> <<"S", "e", "c", "r", "e", "t", " ", "n", "a", "m", "e", " ", "m", "u", "s", "t", " ", "b", "e", " ", "a", " ", "n", "o", "n", "-", "e", "m", "p", "t", "y", " ", "s", "t", "r", "i", "n", "g">>],
  [kind |-> "Error", text |-> <<"S", "e", "c", "r", "e", "t", " ", "n", "a", "m", "e", " ", "c", "a", "n", "n", "o", "t", " ", "b", "e", " ", "e", "m", "p", "t", "y", " ", "o", "r", " ", "w", "h", "i", "t", "e", "s", "p", "a", "c", "e", " ", "o", "n", "l", "y">>],
  [kind |-> "Error", text |-> <<"S", "e", "c", "r", "e", "t", " ", "n", "a", "m", "e", " ", "c", "a", "n", "n", "o", "t", " ", "e", "x", "c", "e", "e", "d", " ", "2", "5", "5", " ", "c", "h", "a", "r", "a", "c", "t", "e", "r", "s">>],
  [kind |-> "Error", text |-> <<"S", "e", "c", "r", "e", "t", " ", "n", "a", "m", "e", " ", "c", "a", "n", " ", "o", "n", "l", "y", " ", "c", "o", "n", "t", "a", "i", "n", " ", "l", "e", "t", "t", "e", "r", "s", ",", " ", "n", "u", "m", "b", "e", "r", "s", ",", " ", "u", "n", "d", "e", "r", "s", "c", "o", "r", "e", "s", ",", " ", "h", "y", "p", "h", "e", "n", "s", ",", " ", "p", "e", "r", "i", "o", "d", "s", ",", " ", "a", "n", "d", " ", "f", "o", "r", "w", "a", "r", "d", " ", "s", "l", "a", "s", "h", "e", "s">>],
  [kind |-> "string", text |-> <<"c", "o", "n", "n", "e", "c", "t", "i", "o", "n", " ", "r", "e", "s", "e", "t">>],
  [kind |-> "Error", text |-> <<"N", "e", "t", "w", "o", "r", "k", " ", "t", "i", "m", "e", "o", "u", "t">>],
  [kind |-> "Error", text |-> <<"S", "e", "c", "r", "e", "t", " ", "n", "o", "t", " ", "f", "o", "u", "n", "d">>],
  [kind |-> "Error", text |-> <<"F", "O", "R", "B", "I", "D", "D", "E", "N">>],
  [kind |-> "Error", text |-> <<"R", "e", "q", "u", "e", "s", "t", " ", "w", "a", "s", " ", "U", "n", "a", "u", "t", "h", "o", "r", "i", "z", "e", "d", " ", "b", "y", " ", "p", "o", "l", "i", "c", "y">>],
  [kind |-> "Error", text |-> <<"A", "c", "c", "e", "s", "s", " ", "D", "e", "n", "i", "e", "d">>],
  [kind |-> "string", text |-> <<"i", "n", "v", "a", "l", "i", "d", " ", "s", "i", "g", "n", "a", "t", "u", "r", "e">>],
  [kind |-> "other", text |-> <<"n", "u", "l", "l">>],
  [kind |-> "Error", text |-> <<"I", "n", "v", "a", "l", "i", "d", " ", "A", "c", "c", "e", "s", "s", " ", "K", "e", "y", " ", "I", "d">>],
  [kind |-> "Error", text |-> <<"I", "n", "v", "a", "l", "i", "d", " ", "p", "a", "r", "a", "m", "e", "t", "e", "r", ":", " ", "S", "e", "c", "r", "e", "t", "N", "a", "m", "e">>],
  [kind |-> "Error", text |-> <<"4", "0", "0", " ", "B", "a", "d", " ", "R", "e", "q", "u", "e", "s", "t">>],
  [kind |-> "Error", text |-> <<"S", "e", "c", "r", "e", "t", " ", "n", "a", "m", "e", "s", " ", "m", "u", "s", "t", " ", "b", "e", " ", "a", "n", " ", "a", "r", "r", "a", "y">>],
  [kind |-> "Error", text |-> <<"F", "a", "i", "l", "e", "d", " ", "t", "o", " ", "f", "e", "t", "c", "h", " ", "s", "e", "c", "r", "e", "t", "(", "s", ")">>],
  [kind |-> "Error", text |-> <<"D", "e", "f", "a", "u", "l", "t", " ", "s", "e", "c", "r", "e", "t", " ", "n", "a", "m", "e", " ", "i", "s", " ", "n", "o", "t", " ", "c", "o", "n", "f", "i", "g", "u", "r", "e", "d">>],
  [kind |-> "Error", text |-> <<"S", "e", "c", "r", "e", "t", " ", "v", "a", "l", "u", "e", " ", "i", "s", " ", "r", "e", "q", "u", "i", "r", "e", "d", " ", "b", "u", "t", " ", "e", "m", "p", "t", "y">>],
  [kind |-> "Error", text |-> <<"S", "e", "c", "r", "e", "t", " ", "v", "a", "l", "u", "e", " ", "l", "e", "n", "g", "t", "h", " ", "m", "u", "s", "t", " ", "b", "e", " ", "a", "t", " ", "l", "e", "a", "s", "t", " ", "3">>],
  [kind |-> "Error", text |-> <<"S", "e", "c", "r", "e", "t", " ", "v", "a", "l", "u", "e", " ", "l", "e", "n", "g", "t", "h", " ", "m", "u", "s", "t", " ", "n", "o", "t", " ", "e", "x", "c", "e", "e", "d", " ", "1">>],
  [kind |-> "Error", text |-> <<"S", "e", "c", "r", "e", "t", " ", "v", "a", "l", "u", "e", " ", "d", "o", "e", "s", " ", "n", "o", "t", " ", "m", "a", "t", "c", "h", " ", "r", "e", "q", "u", "i", "r", "e", "d", " ", "p", "a", "t", "t", "e", "r", "n">>],
  [kind |-> "Error", text |-> <<"S", "e", "c", "r", "e", "t", " ", "v", "a", "l", "u", "e", " ", "f", "a", "i", "l", "e", "d", " ", "c", "u", "s", "t", "o", "m", " ", "v", "a", "l", "i", "d", "a", "t", "i", "o", "n">>],
  [kind |-> "Error", text |-> <<"F", "a", "i", "l", "e", "d", " ", "t", "o", " ", "f", "e", "t", "c", "h", " ", "r", "e", "q", "u", "i", "r", "e", "d", " ", "s", "e", "c", "r", "e", "t", "s">>],
  [kind |-> "Error", text |-> <<>>],
  [kind |-> "Error", text |-> <<"T", "h", "e", " ", "r", "e", "q", "u", "e", "s", "t", " ", "s", "i", "g", "n", "a", "t", "u", "r", "e", " ", "d", "o", "e", "s", " ", "n", "o", "t", " ", "m", "a", "t", "c", "h">>],
  [kind |-> "Error", text |-> <<"U", "n", "a", "b", "l", "e", " ", "t", "o", " ", "i", "m", "p", "o", "r", "t", " ", "@", "a", "l", "i", "c", "l", "o", "u", "d", "/", "k", "m", "s", "2", "0", "1", "6", "0", "1", "2", "0", " ", "i", "n", " ", "t", "h", "i", "s", " ", "e", "n", "v", "i", "r", "o", "n", "m", "e", "n", "t">>] >>

ErrNameNotString == 1
ErrNameEmpty == 2
ErrNameTooLong == 3
ErrNameChars == 4
ErrNotArray == 16
ErrAggregate == 17
ErrNoDefault == 18
\* what the remote call can reject with
RemoteErrors == {e \in 1..Len(ErrorTable) : e > ErrNameChars /\ e < ErrNotArray}
\* two of them: Error('Network timeout') and Error('Secret not found')
ErrNetworkTimeout == 6
ErrSecretNotFound == 7
\* the errors of validateSecretValue, in the order of its checks
ErrValueRequired == 19
ErrValueTooShort == 20
ErrValueTooLong == 21
ErrValuePattern == 22
ErrValueCustom == 23
\* the aggregate error of getSecretsWithConfig
ErrRequiredFailed == 24
\* a rejection whose message is empty: new Error()
ErrEmptyMessage == 25
\* a rejection the retry loop retries and whose message holds 'does not match'
ErrSignatureMismatch == 26
\* the rejection of initPromise when the KMS SDK cannot be loaded
ErrInitFailed == 27

getErrorMessage(error) == ErrorTable[error].text

\* the error validateSecretName throws, NoError when it returns
validateSecretName(secretName) ==
  IF ~TruthyString(secretName) THEN ErrNameNotString
  ELSE IF Len(trim(secretName)) = 0 THEN ErrNameEmpty
  ELSE IF Len(trim(secretName)) > MaxNameLength THEN ErrNameTooLong
  ELSE IF \E i \in 1..Len(trim(secretName)) : trim(secretName)[i] \notin ValidNameChars
       THEN ErrNameChars
  ELSE NoError

-----------------------------------------------------------------------------
(* KmsService: getSecretValue and executeWithRetry *)

nonRetryablePatterns == <<
  <<"u", "n", "a", "u", "t", "h", "o", "r", "i", "z", "e", "d">>,
  <<"f", "o", "r", "b", "i", "d", "d", "e", "n">>,
  <<"a", "c", "c", "e", "s", "s", " ", "d", "e", "n", "i", "e", "d">>,
  <<"i", "n", "v", "a", "l", "i", "d", " ", "s", "i", "g", "n", "a", "t", "u", "r", "e">>,
  <<"i", "n", "v", "a", "l", "i", "d", " ", "a", "c", "c", "e", "s", "s", " ", "k", "e", "y">>,
  <<"i", "n", "v", "a", "l", "i", "d", " ", "p", "a", "r", "a", "m", "e", "t", "e", "r">>,
  <<"s", "e", "c", "r", "e", "t", " ", "n", "o", "t", " ", "f", "o", "u", "n", "d">>,
  <<"b", "a", "d", " ", "r", "e", "q", "u", "e", "s", "t">> >>

\* a classification that forgets to lower-case the message
isNonRetryableError_CaseSensitive(error) ==
  \E i \in 1..Len(nonRetryablePatterns) :
     includes(getErrorMessage(error), nonRetryablePatterns[i])

isNonRetryableError(error) ==
  \E i \in 1..Len(nonRetryablePatterns) :
     includes(toLowerCase(getErrorMessage(error)), nonRetryablePatterns[i])

\* a loop that gives up one attempt early
isLastAttempt_OneEarly(attempt) == attempt >= MaxRetries - 1

\* a loop that allows one more attempt
isLastAttempt_OneLate(attempt) == attempt >= MaxRetries + 1

\* a loop that gives up after the fourth attempt only
isLastAttempt_FourAttempts(attempt) == attempt = MaxRetries + 1

\* executeWithRetry: attempt === maxRetries
isLastAttempt(attempt) == attempt = MaxRetries

RECURSIVE Pow2(_)
Pow2(n) == IF n = 0 THEN 1 ELSE 2 * Pow2(n - 1)

\* Math.random() * 1000, in whole milliseconds: the two ends of the range
JitterChoices == {0, JitterRange - 1}

\* a delay that does not grow
retryDelay_Constant(attempt, jitter) == BaseDelay + jitter

retryDelay(attempt, jitter) == BaseDelay * Pow2(attempt - 1) + jitter

\* a remote response: response.body may be missing, and so may body.secretData
Response(hasBody, hasData, data) == [hasBody |-> hasBody, hasData |-> hasData, data |-> data]
NoBodyResponse == Response(FALSE, FALSE, "")
NoDataResponse == Response(TRUE, FALSE, "")
DataResponse(data) == Response(TRUE, TRUE, data)

\* a reading of the response without the fallback to the empty string
secretDataOf_OrUndefined(response) ==
  IF response.hasBody /\ response.hasData THEN response.data ELSE Undefined

\* response.body?.secretData || ''
secretDataOf(response) ==
  IF response.hasBody /\ response.hasData /\ response.data # "" THEN response.data ELSE ""

\* a cache read that treats an empty cached secret as a miss
isCacheHit_Truthy(cachedValue) == cachedValue # Null /\ cachedValue # ""

\* getSecretValue: cachedValue !== null
isCacheHit(cachedValue) == cachedValue # Null

\* a cache guard that forgets the skipCache flag
usesCache_IgnoresSkip(skipCache) == config.enabled

\* getSecretValue: !skipCache && this.cacheService?.isEnabled()
usesCache(skipCache) == ~skipCache /\ config.enabled

NewFetch(name, skipCache, owner, pos) ==
  [name |-> name, skipCache |-> skipCache, owner |-> owner, pos |-> pos,
   pc |-> "init", attempt |-> 0, calls |-> 0, warns |-> 0,
   lastError |-> NoError, delay |-> 0, wakeAt |-> 0,
   result |-> "", raised |-> NoError]

Finished(f) == f.pc \in {"returned", "raised"}

\* obj[key] = value on a plain object, value a string: the accessor ignores
\* a value that is neither an object nor null, and obj stays as it was
PutProperty(obj, key, value) ==
  IF key = ProtoKey THEN obj
  ELSE [k \in DOMAIN obj \cup {key} |-> IF k = key THEN value ELSE obj[k]]

\* the continuation of getMultipleSecrets' batch.map callback for a finished call
Settle(f) ==
  IF f.owner # "multi" THEN multi
  ELSE IF f.pc = "returned"
       THEN [multi EXCEPT !.results = PutProperty(@, f.name, f.result)]
       ELSE [multi EXCEPT !.errors = PutProperty(@, f.name, getErrorMessage(f.raised))]

\* the call issues kmsClient.getSecretValue(request)
IssueRemote(f) == [f EXCEPT !.pc = "remote", !.attempt = @ + 1, !.calls = @ + 1]

\* getSecretValue after await ensureInitialized(), up to the first remote call
Begin(i) ==
  LET f == fetch[i]
      invalid == validateSecretName(f.name)
      raisedF == [f EXCEPT !.pc = "raised", !.raised = invalid]
  IN
  /\ f.pc = "init"
  /\ \A j \in 1..(i - 1) : fetch[j].pc # "init"
  /\ IF inputs.initError # NoError
     THEN LET failedF == [f EXCEPT !.pc = "raised", !.raised = inputs.initError] IN
          /\ fetch' = [fetch EXCEPT ![i] = failedF]
          /\ multi' = Settle(failedF)
          /\ UNCHANGED cacheVars
     ELSE IF invalid # NoError
     THEN /\ fetch' = [fetch EXCEPT ![i] = raisedF]
          /\ multi' = Settle(raisedF)
          /\ UNCHANGED cacheVars
     ELSE IF usesCache(f.skipCache)
     THEN /\ CacheGet(f.name)
          /\ IF isCacheHit(ret')
             THEN LET hitF == [f EXCEPT !.pc = "returned", !.result = ret'] IN
                  /\ fetch' = [fetch EXCEPT ![i] = hitF]
                  /\ multi' = Settle(hitF)
             ELSE /\ fetch' = [fetch EXCEPT ![i] = IssueRemote(f)]
                  /\ UNCHANGED multi
     ELSE /\ fetch' = [fetch EXCEPT ![i] = IssueRemote(f)]
          /\ UNCHANGED <<multi, cacheVars>>
  /\ UNCHANGED <<now, batchCall, service, inputs>>

\* the remote call resolves: the rest of the operation passed to executeWithRetry
RespondOk(i, response) ==
  LET f == fetch[i]
      secretData == secretDataOf(response)
      doneF == [f EXCEPT !.pc = "returned", !.result = secretData]
  IN
  /\ f.pc = "remote"
  /\ IF usesCache(f.skipCache)
     THEN CacheSet(f.name, secretData, NoNumber)
     ELSE UNCHANGED cacheVars
  /\ fetch' = [fetch EXCEPT ![i] = doneF]
  /\ multi' = Settle(doneF)
  /\ UNCHANGED <<now, batchCall, service, inputs>>

\* the remote call rejects: the catch block of executeWithRetry
RespondFail(i, error, jitter) ==
  LET f == fetch[i]
      failedF == [f EXCEPT !.lastError = error]
      raisedF == [failedF EXCEPT !.pc = "raised", !.raised = error]
      delay == retryDelay(f.attempt, jitter)
      sleepF == [failedF EXCEPT !.pc = "sleeping", !.warns = @ + 1,
                                !.delay = delay, !.wakeAt = now + delay]
  IN
  /\ f.pc = "remote"
  /\ IF isNonRetryableError(error) \/ isLastAttempt(f.attempt)
     THEN /\ fetch' = [fetch EXCEPT ![i] = raisedF]
          /\ multi' = Settle(raisedF)
     ELSE /\ fetch' = [fetch EXCEPT ![i] = sleepF]
          /\ UNCHANGED multi
  /\ UNCHANGED <<now, batchCall, service, inputs>>
  /\ UNCHANGED cacheVars

\* the setTimeout of sleep fires and the loop of executeWithRetry goes round
Wake(i) ==
  LET f == fetch[i] IN
  /\ f.pc = "sleeping"
  /\ \A j \in 1..Len(fetch) : fetch[j].pc = "sleeping" => f.wakeAt <= fetch[j].wakeAt
  /\ now' = IF now < f.wakeAt THEN f.wakeAt ELSE now
  /\ fetch' = [fetch EXCEPT ![i] = IssueRemote([f EXCEPT !.delay = 0, !.wakeAt = 0])]
  /\ UNCHANGED <<multi, batchCall, service, inputs>>
  /\ UNCHANGED cacheVars

-----------------------------------------------------------------------------
(* KmsService.getMultipleSecrets *)

RECURSIVE uniqueOf(_, _)
\* [...new Set(secretNames)]
uniqueOf(names, seen) ==
  IF names = <<>> THEN <<>>
  ELSE IF Head(names) \in seen THEN uniqueOf(Tail(names), seen)
  ELSE <<Head(names)>> \o uniqueOf(Tail(names), seen \cup {Head(names)})

\* a copy of the list that keeps the duplicates
dedupe_KeepsDuplicates(names) == names

dedupe(names) == uniqueOf(names, {})

Min(a, b) == IF a < b THEN a ELSE b

\* a limit that lets every name run at once
concurrencyLimit_Unbounded(n) == n

concurrencyLimit(n) == Min(n, MaxConcurrency)

RECURSIVE slices(_, _)
slices(names, size) ==
  IF names = <<>> THEN <<>>
  ELSE <<SubSeq(names, 1, Min(size, Len(names)))>>
       \o slices(SubSeq(names, Min(size, Len(names)) + 1, Len(names)), size)

\* a validation that looks at the first name of the list only
firstInvalid_HeadOnly(names) ==
  IF names = <<>> THEN NoError ELSE validateSecretName(Head(names))

\* the first name validateSecretName rejects, NoError when all pass
RECURSIVE firstInvalid(_)
firstInvalid(names) ==
  IF names = <<>> THEN NoError
  ELSE IF validateSecretName(Head(names)) # NoError THEN validateSecretName(Head(names))
  ELSE firstInvalid(Tail(names))

\* batch.map(async (secretName) => ... getSecretValue(secretName)) 
startBatch(batch, offset) ==
  [k \in 1..Len(batch) |-> NewFetch(batch[k], FALSE, "multi", offset + k)]

\* getMultipleSecrets up to its first await: the call and the calls of
\* getSecretValue it has started
startedMulti(arg) ==
  LET unique == dedupe(arg.items)
      batches == slices(unique, concurrencyLimit(Len(unique)))
  IN
  IF ~arg.isArray
  THEN [multi |-> [multi EXCEPT !.pc = "raised", !.raised = ErrNotArray], started |-> <<>>]
  ELSE IF Len(arg.items) = 0
  THEN [multi |-> [multi EXCEPT !.pc = "returned"], started |-> <<>>]
  ELSE IF firstInvalid(arg.items) # NoError
  THEN [multi |-> [multi EXCEPT !.pc = "raised", !.secretNames = arg.items,
                                !.raised = firstInvalid(arg.items)],
        started |-> <<>>]
  ELSE [multi |-> [multi EXCEPT !.pc = "running", !.secretNames = arg.items,
                                !.unique = unique,
                                !.batches = batches, !.batch = 1],
        started |-> startBatch(batches[1], 0)]

StartMulti(arg) ==
  /\ multi.pc = "idle"
  /\ multi' = startedMulti(arg).multi
  /\ fetch' = fetch \o startedMulti(arg).started
  /\ UNCHANGED <<now, batchCall, service, inputs>>
  /\ UNCHANGED cacheVars

\* the number of names in the batches before batch b
RECURSIVE namesBefore(_, _)
namesBefore(batches, b) ==
  IF b <= 1 THEN 0 ELSE Len(batches[b - 1]) + namesBefore(batches, b - 1)

\* Promise.all of the current batch resolves: the next batch, or the end
AdvanceMulti ==
  /\ multi.pc = "running"
  /\ \A i \in 1..Len(fetch) : fetch[i].owner = "multi" => Finished(fetch[i])
  /\ IF multi.batch < Len(multi.batches)
     THEN /\ multi' = [multi EXCEPT !.batch = @ + 1]
          /\ fetch' = fetch \o startBatch(multi.batches[multi.batch + 1],
                                          namesBefore(multi.batches, multi.batch + 1))
     ELSE /\ multi' = IF DOMAIN multi.errors # {}
                      THEN [multi EXCEPT !.pc = "raised", !.raised = ErrAggregate]
                      ELSE [multi EXCEPT !.pc = "returned"]
          /\ UNCHANGED fetch
  /\ UNCHANGED <<now, batchCall, service, inputs>>
  /\ UNCHANGED cacheVars

-----------------------------------------------------------------------------
(* KmsService: warmupCache, refreshSecretCache and checkConnection *)

\* a test that takes every resident entry for a cached one
isCached_Resident(m, cacheKey) == MapHas(m, cacheKey)

\* what CacheService.has answers for an enabled cache
isCached(m, cacheKey) == MapHas(m, cacheKey) /\ ~isExpired(MapGet(m, cacheKey))

RECURSIVE FilterLoop(_, _)
\* secretNames.filter((name) => !this.cacheService.has(name)): the names it
\* keeps, and the store that the calls of has leave (has removes an entry it
\* finds expired)
FilterLoop(names, st) ==
  IF names = <<>> THEN st
  ELSE LET cacheKey == generateKey(Head(names)) IN
       FilterLoop(Tail(names),
         [cache |-> IF MapHas(st.cache, cacheKey) /\ ~isCached(st.cache, cacheKey)
                    THEN MapDelete(st.cache, cacheKey) ELSE st.cache,
          kept |-> IF isCached(st.cache, cacheKey) THEN st.kept
                   ELSE Append(st.kept, Head(names))])

\* warmupCache up to its first await
StartWarmup(secretNames, force) ==
  LET st == FilterLoop(secretNames, [cache |-> cache, kept |-> <<>>])
      secretsToLoad == IF force THEN secretNames ELSE st.kept
      started == startedMulti([isArray |-> TRUE, items |-> secretsToLoad])
      called == [service.warmup EXCEPT !.secretNames = secretNames, !.force = force]
  IN
  /\ service.warmup.pc = "idle"
  /\ multi.pc = "idle"
  /\ IF ~config.enabled
     THEN /\ service' = [service EXCEPT !.warmup = [called EXCEPT !.pc = "returned",
                                                                    !.warns = @ + 1]]
          /\ UNCHANGED <<fetch, multi, cacheVars>>
     ELSE IF Len(secretNames) = 0
     THEN /\ service' = [service EXCEPT !.warmup = [called EXCEPT !.pc = "returned"]]
          /\ UNCHANGED <<fetch, multi, cacheVars>>
     ELSE /\ IF force
             THEN UNCHANGED cacheVars
             ELSE /\ cache' = st.cache
                  /\ call' = [op |-> "has", key |-> secretNames[Len(secretNames)]]
                  /\ ret' = IF Len(st.kept) > 0
                               /\ st.kept[Len(st.kept)] = secretNames[Len(secretNames)]
                            THEN False ELSE True
                  /\ events' = <<>>
                  /\ UNCHANGED <<config, hitCount, missCount, timerOn, nextSweep>>
                  /\ Notify
          /\ IF Len(secretsToLoad) = 0
             THEN /\ service' = [service EXCEPT !.warmup = [called EXCEPT !.pc = "returned"]]
                  /\ UNCHANGED <<fetch, multi>>
             ELSE /\ service' = [service EXCEPT
                       !.warmup = [called EXCEPT !.pc = "running",
                                                 !.secretsToLoad = secretsToLoad]]
                  /\ multi' = started.multi
                  /\ fetch' = fetch \o started.started
  /\ UNCHANGED <<now, batchCall, inputs>>

\* getMultipleSecrets has settled: the rest of warmupCache
AdvanceWarmup ==
  /\ service.warmup.pc = "running"
  /\ multi.pc \in {"returned", "raised"}
  /\ service' = [service EXCEPT !.warmup.pc = multi.pc, !.warmup.raised = multi.raised]
  /\ UNCHANGED <<now, fetch, multi, batchCall, inputs>>
  /\ UNCHANGED cacheVars

\* refreshSecretCache up to the first await of getSecretValue:
\* clearSecretCache(secretName), then the call of getSecretValue(secretName)
StartRefresh(secretName) ==
  /\ IF config.enabled THEN CacheDelete(secretName) ELSE UNCHANGED cacheVars
  /\ fetch' = Append(fetch, NewFetch(secretName, FALSE, "refresh", 0))
  /\ UNCHANGED <<now, multi, batchCall, service, inputs>>

\* this.cacheService?.isEnabled()
cacheIsEnabled == inputs.cacheInjected /\ config.enabled

\* clearSecretCache(secretName)
ClearSecretCache(secretName) ==
  /\ IF ~cacheIsEnabled
     THEN /\ service' = [service EXCEPT !.manage = [op |-> "clearSecretCache", result |-> False]]
          /\ UNCHANGED cacheVars
     ELSE /\ CacheDelete(secretName)
          /\ service' = [service EXCEPT !.manage = [op |-> "clearSecretCache", result |-> ret']]
  /\ UNCHANGED <<now, fetch, multi, batchCall, inputs>>

\* clearAllCache()
ClearAllCache ==
  /\ IF cacheIsEnabled THEN CacheClear ELSE UNCHANGED cacheVars
  /\ service' = [service EXCEPT !.manage = [op |-> "clearAllCache", result |-> Undefined]]
  /\ UNCHANGED <<now, fetch, multi, batchCall, inputs>>

\* getCacheStats: this.cacheService?.getStats() || null, where getStats()
\* returns an object; "stats" stands for the object that ret then holds
statsOrNull == IF inputs.cacheInjected THEN "stats" ELSE Null

GetCacheStats ==
  /\ IF inputs.cacheInjected THEN CacheGetStats ELSE UNCHANGED cacheVars
  /\ service' = [service EXCEPT !.manage = [op |-> "getCacheStats", result |-> statsOrNull]]
  /\ UNCHANGED <<now, fetch, multi, batchCall, inputs>>

\* getDefaultSecretValue: raise when no default secret name is configured,
\* else the call of getSecretValue(defaultSecretName)
StartDefault ==
  /\ \A i \in 1..Len(fetch) : fetch[i].owner # "default"
  /\ fetch' = Append(fetch,
        IF ~TruthyString(inputs.defaultSecretName)
        THEN [NewFetch(EmptyString, FALSE, "default", 0) EXCEPT
                 !.pc = "raised", !.raised = ErrNoDefault]
        ELSE NewFetch(inputs.defaultSecretName, FALSE, "default", 0))
  /\ UNCHANGED <<now, multi, batchCall, service, inputs>>
  /\ UNCHANGED cacheVars

\* a catch block that passes the error of the fetch on to the caller
checkResult_Rethrows(f) == IF f.pc = "returned" THEN "true" ELSE "raised"

\* checkConnection: return true after the await of getSecretValue, return
\* false from the catch block
checkResult(f) == IF f.pc = "returned" THEN "true" ELSE "false"

\* checkConnection after await ensureInitialized(): the error is caught, or
\* the default secret is requested, or there is nothing to request
StartCheck ==
  /\ service.check.pc = "idle"
  /\ IF inputs.initError # NoError
     THEN /\ service' = [service EXCEPT !.check.pc = "false", !.check.errorLogs = @ + 1]
          /\ UNCHANGED fetch
     ELSE IF TruthyString(inputs.defaultSecretName)
     THEN /\ service' = [service EXCEPT !.check.pc = "running"]
          /\ fetch' = Append(fetch, NewFetch(inputs.defaultSecretName, FALSE, "check", 0))
     ELSE /\ service' = [service EXCEPT !.check.pc = "true", !.check.warns = @ + 1]
          /\ UNCHANGED fetch
  /\ UNCHANGED <<now, multi, batchCall, inputs>>
  /\ UNCHANGED cacheVars

\* the call of getSecretValue(defaultSecretName) has settled: return true, or
\* catch the error and return false
AdvanceCheck ==
  /\ service.check.pc = "running"
  /\ \E q \in 1..Len(fetch) :
        /\ fetch[q].owner = "check" /\ Finished(fetch[q])
        /\ service' = [service EXCEPT
               !.check.pc = checkResult(fetch[q]),
               !.check.errorLogs = IF fetch[q].pc = "returned" THEN @ ELSE @ + 1]
  /\ UNCHANGED <<now, fetch, multi, batchCall, inputs>>
  /\ UNCHANGED cacheVars

-----------------------------------------------------------------------------
(* KmsService.getSecretsWithConfig (entries without isJson) *)

\* the characters of the secret values the remote source serves
ValueChars == [v \in {"", " ", "v1"} |->
                 IF v = "" THEN <<>> ELSE IF v = " " THEN <<" ">> ELSE <<"v", "1">>]

\* a SecretValidationRule: minLength and maxLength are optional numbers,
\* pattern and validator are optional and given by the values they accept
Rule(required, minLength, maxLength, pattern, validator) ==
  [required |-> required, minLength |-> minLength, maxLength |-> maxLength,
   pattern |-> pattern, validator |-> validator]

\* an entry of a SecretConfigMapping: alias is EmptyString when absent,
\* defaultValue and validation are <<>> when absent
SecretConfig(key, name, alias, required, defaultValue, validation) ==
  [key |-> key, name |-> name, alias |-> alias, required |-> required,
   defaultValue |-> defaultValue, validation |-> validation]

\* validateSecretValue: the error it throws, NoError when the value passes
validateSecretValue(value, validation) ==
  IF validation.required /\ (value = "" \/ Len(trim(ValueChars[value])) = 0)
  THEN ErrValueRequired
  ELSE IF TruthyNumber(validation.minLength)
          /\ Len(ValueChars[value]) < validation.minLength[1]
  THEN ErrValueTooShort
  ELSE IF TruthyNumber(validation.maxLength)
          /\ Len(ValueChars[value]) > validation.maxLength[1]
  THEN ErrValueTooLong
  ELSE IF validation.pattern # <<>> /\ value \notin validation.pattern[1]
  THEN ErrValuePattern
  ELSE IF validation.validator # <<>> /\ value \notin validation.validator[1]
  THEN ErrValueCustom
  ELSE NoError

\* an alias that is never used
aliasOf_AlwaysKey(entry) == entry.key

\* processSecretConfig: config.alias || key
aliasOf(entry) == IF entry.alias # EmptyString THEN entry.alias ELSE entry.key

\* a try block that skips the validation rule
tryError_NoValidation(f, entry) == IF f.pc = "raised" THEN f.raised ELSE NoError

\* the error thrown inside the try block of processSecretConfig once the
\* call of getSecretValue has finished, NoError when the block completes
tryError(f, entry) ==
  IF f.pc = "raised" THEN f.raised
  ELSE IF entry.validation # <<>> THEN validateSecretValue(f.result, entry.validation[1])
  ELSE NoError

\* processSecretConfig: !config.required && config.defaultValue !== undefined
usesDefault(entry) == ~entry.required /\ entry.defaultValue # <<>>

\* processSecretConfig after its await: the success map it leaves and the
\* error it throws
processSecretConfig(entry, f, success) ==
  IF tryError(f, entry) = NoError
  THEN [success |-> PutProperty(success, aliasOf(entry), f.result), thrown |-> NoError]
  ELSE IF usesDefault(entry)
  THEN [success |-> PutProperty(success, aliasOf(entry), entry.defaultValue[1]),
        thrown |-> NoError]
  ELSE [success |-> success, thrown |-> tryError(f, entry)]

\* the phrases that make getSecretsWithConfig rethrow the error of a
\* required entry from inside the loop
rethrownPhrases == <<
  <<"v", "a", "l", "i", "d", "a", "t", "i", "o", "n">>,
  <<"l", "e", "n", "g", "t", "h", " ", "m", "u", "s", "t", " ", "b", "e">>,
  <<"d", "o", "e", "s", " ", "n", "o", "t", " ", "m", "a", "t", "c", "h">>,
  <<"P", "a", "t", "h", " ", "n", "o", "t", " ", "f", "o", "u", "n", "d">>,
  <<"I", "n", "v", "a", "l", "i", "d", " ", "J", "S", "O", "N", " ", "p", "a", "t", "h">> >>

\* a loop that rethrows every error of a required entry
isRethrown_Always(errorMessage) == TRUE

isRethrown(errorMessage) ==
  \E i \in 1..Len(rethrownPhrases) : includes(errorMessage, rethrownPhrases[i])

\* failed[key] as a condition: a recorded message that is not empty; the
\* key __proto__ reads the prototype of the plain object, which is truthy
isRecorded(failed, key) ==
  key = ProtoKey \/ (key \in DOMAIN failed /\ failed[key] # EmptyString)

\* requiredSecrets.filter(([key]) => failed[key]).map(([key]) => key)
failedRequiredSecrets(entries, failed) ==
  LET RECURSIVE keysOf(_)
      keysOf(es) ==
        IF es = <<>> THEN <<>>
        ELSE IF Head(es).required /\ isRecorded(failed, Head(es).key)
             THEN <<Head(es).key>> \o keysOf(Tail(es))
             ELSE keysOf(Tail(es))
  IN keysOf(entries)

\* the call of getSecretValue(config.name) made for entry i
startEntry(entries, i) == NewFetch(entries[i].name, FALSE, "config", i)

\* getSecretsWithConfig up to its first await
StartConfig(secretsConfig) ==
  /\ batchCall.pc = "idle"
  /\ IF Len(secretsConfig) = 0
     THEN /\ batchCall' = [batchCall EXCEPT !.pc = "returned"]
          /\ UNCHANGED fetch
     ELSE /\ batchCall' = [batchCall EXCEPT !.pc = "running", !.entries = secretsConfig, !.index = 1]
          /\ fetch' = Append(fetch, startEntry(secretsConfig, 1))
  /\ UNCHANGED <<now, multi, service, inputs>>
  /\ UNCHANGED cacheVars

\* the statements after the loop of getSecretsWithConfig
finishConfig(b) ==
  LET names == failedRequiredSecrets(b.entries, b.failed)
      counted == [b EXCEPT !.total = Len(b.entries),
                           !.successCount = Cardinality(DOMAIN b.success),
                           !.failureCount = Cardinality(DOMAIN b.failed)]
  IN IF Len(names) > 0
     THEN [counted EXCEPT !.pc = "raised", !.raised = ErrRequiredFailed, !.named = names]
     ELSE [counted EXCEPT !.pc = "returned"]

\* the call of getSecretValue for the current entry has finished: the rest of
\* processSecretConfig, the catch block of the loop, and then the next
\* entry or the end of getSecretsWithConfig
AdvanceConfig ==
  \E j \in 1..Len(fetch) :
    LET f == fetch[j]
        entry == batchCall.entries[batchCall.index]
        out == processSecretConfig(entry, f, batchCall.success)
        errorMessage == getErrorMessage(out.thrown)
        caught == [batchCall EXCEPT
                     !.failed = PutProperty(@, entry.key, errorMessage),
                     !.errorLogs = IF entry.required THEN @ + 1 ELSE @,
                     !.warnLogs = IF entry.required THEN @ ELSE @ + 1]
        after == IF out.thrown = NoError
                 THEN [batchCall EXCEPT !.success = out.success]
                 ELSE caught
    IN
    /\ batchCall.pc = "running"
    /\ f.owner = "config" /\ f.pos = batchCall.index /\ Finished(f)
    /\ IF out.thrown # NoError /\ entry.required /\ isRethrown(errorMessage)
       THEN /\ batchCall' = [after EXCEPT !.pc = "raised", !.raised = out.thrown]
            /\ UNCHANGED fetch
       ELSE IF batchCall.index < Len(batchCall.entries)
       THEN /\ batchCall' = [after EXCEPT !.index = @ + 1]
            /\ fetch' = Append(fetch, startEntry(batchCall.entries, batchCall.index + 1))
       ELSE /\ batchCall' = finishConfig(after)
            /\ UNCHANGED fetch
    /\ UNCHANGED <<now, multi, service, inputs>>
    /\ UNCHANGED cacheVars

-----------------------------------------------------------------------------
(* The secrets client and its callers *)

StartFetch ==
  /\ Len(fetch) < inputs.calls
  /\ \E n \in inputs.names, skip \in inputs.skips :
        fetch' = Append(fetch, NewFetch(n, skip, "client", 0))
  /\ UNCHANGED <<now, multi, batchCall, service, inputs>>
  /\ UNCHANGED cacheVars

BeginFetch == \E i \in 1..Len(fetch) : Begin(i)

RemoteOk == \E i \in 1..Len(fetch), r \in inputs.responses : RespondOk(i, r)

RemoteFail ==
  \E i \in 1..Len(fetch), e \in inputs.errors, j \in inputs.jitters :
     /\ fetch[i].name \in inputs.failing
     /\ RespondFail(i, e, j)

TimerFires == \E i \in 1..Len(fetch) : Wake(i)

CallMulti == \E arg \in inputs.lists : StartMulti(arg)

\* one call for one secret whose remote fetch may fail in every way, no cache
InitRetry ==
  /\ InitCache({DisabledOptions})
  /\ InitClientIdle
  /\ inputs = [NoInputs EXCEPT !.names = {<<"a">>, <<"b">>}, !.skips = {FALSE}, !.calls = 1,
                               !.responses = {DataResponse("v1"), NoBodyResponse},
                               !.errors = RemoteErrors, !.failing = {<<"a">>, <<"b">>},
                               !.jitters = JitterChoices]

NextRetry == StartFetch \/ BeginFetch \/ RemoteOk \/ RemoteFail \/ TimerFires

SpecRetry == InitRetry /\ [][NextRetry]_vars

\* the same call in a module configured without maxRetries, with 2 and with 5
InitPolicy ==
  /\ InitCache({DisabledOptions})
  /\ InitClientIdle
  /\ \E n \in {NoNumber, <<2>>, <<5>>} :
        inputs = [NoInputs EXCEPT !.names = {<<"a">>, <<"b">>}, !.skips = {FALSE}, !.calls = 1,
                                  !.responses = {DataResponse("v1")},
                                  !.errors = {ErrNetworkTimeout, ErrSecretNotFound},
                                  !.failing = {<<"a">>, <<"b">>},
                                  !.jitters = JitterChoices, !.maxRetries = n]

SpecPolicy == InitPolicy /\ [][NextRetry]_vars

\* calls for one secret with and without skipCache, a cache of 1 s, a remote
\* KMS that may answer with or without secret data or reject the request
\* for good (the retries are the subject of SpecRetry)
InitFetch ==
  /\ InitCache({Options(TRUE, <<1>>, <<2>>, <<"p", ":">>)})
  /\ InitClientIdle
  /\ inputs = [NoInputs EXCEPT !.names = {<<"a">>}, !.skips = BOOLEAN, !.calls = MaxCalls,
                               !.responses = {DataResponse("v1"), NoDataResponse},
                               !.errors = {ErrSecretNotFound}, !.failing = {<<"a">>},
                               !.jitters = {0}]

NextFetch == StartFetch \/ BeginFetch \/ RemoteOk \/ RemoteFail \/ Tick

SpecFetch == InitFetch /\ [][NextFetch]_vars

CallConfig == \E c \in inputs.configs : StartConfig(c)

\* validation rules: a value that must not be empty, at least 3 and at most
\* 1 characters long, a pattern and a validator that accept no served value
MustBePresent == Rule(TRUE, NoNumber, NoNumber, <<>>, <<>>)
AtLeast3 == Rule(FALSE, <<3>>, NoNumber, <<>>, <<>>)
AtMost1 == Rule(FALSE, NoNumber, <<1>>, <<>>, <<>>)
NoMatch == Rule(FALSE, NoNumber, NoNumber, <<{}>>, <<>>)
Rejecting == Rule(FALSE, NoNumber, NoNumber, <<>>, <<{}>>)

Required(key, name, validation) ==
  SecretConfig(key, name, EmptyString, TRUE, <<>>, validation)
Optional(key, name, alias, defaultValue, validation) ==
  SecretConfig(key, name, alias, FALSE, defaultValue, validation)

\* one call of getSecretsWithConfig, no cache; secret a may be rejected by
\* the remote KMS (for good, or with an empty message on every attempt),
\* secret b is served with or without data
ConfigChoices == {
  <<>>,
  <<Required(<<"k", "1">>, <<"a">>, <<>>), Required(<<"k", "2">>, <<"a">>, <<>>),
    Optional(<<"k", "3">>, <<"b">>, <<"x">>, <<"d0">>, <<>>)>>,
  <<Optional(<<"k", "1">>, <<"a">>, <<"x">>, <<"d0">>, <<>>),
    Optional(<<"k", "2">>, <<"a">>, EmptyString, <<>>, <<>>),
    Optional(<<"k", "3">>, <<"a">>, EmptyString, <<"">>, <<>>)>>,
  <<Required(<<"k", "1">>, <<"b">>, <<AtLeast3>>), Required(<<"k", "2">>, <<"b">>, <<>>)>>,
  <<Required(<<"k", "1">>, <<"b">>, <<AtMost1>>), Required(<<"k", "2">>, <<"b">>, <<Rejecting>>)>>,
  <<Optional(<<"k", "1">>, <<"b">>, EmptyString, <<"d0">>, <<Rejecting>>),
    Optional(<<"k", "2">>, <<"b">>, <<"y">>, <<>>, <<NoMatch>>),
    Required(<<"k", "3">>, <<"b">>, <<MustBePresent>>)>> }

InitConfig ==
  /\ InitCache({DisabledOptions})
  /\ InitClientIdle
  /\ inputs = [NoInputs EXCEPT !.configs = ConfigChoices,
                               !.responses = {DataResponse("v1"), NoBodyResponse},
                               !.errors = {ErrSecretNotFound, ErrEmptyMessage, ErrSignatureMismatch},
                               !.failing = {<<"a">>}, !.jitters = {0}]

NextConfig == CallConfig \/ AdvanceConfig \/ BeginFetch \/ RemoteOk \/ RemoteFail \/ TimerFires

SpecConfig == InitConfig /\ [][NextConfig]_vars

\* config maps whose entries share an alias, use the key of another entry as
\* their alias, or have aliases of their own
AliasChoices == {
  <<>>,
  <<Optional(<<"k", "1">>, <<"b">>, <<"x">>, <<>>, <<>>),
    Optional(<<"k", "2">>, <<"a">>, <<"y">>, <<>>, <<>>),
    Optional(<<"k", "3">>, <<"a">>, EmptyString, <<"d0">>, <<>>)>>,
  <<Optional(<<"k", "1">>, <<"b">>, <<"x">>, <<>>, <<>>),
    Optional(<<"k", "2">>, <<"b">>, <<"x">>, <<>>, <<>>)>>,
  <<Optional(<<"k", "1">>, <<"b">>, <<"k", "2">>, <<>>, <<>>),
    Optional(<<"k", "2">>, <<"a">>, EmptyString, <<>>, <<>>)>> }

\* one call of getSecretsWithConfig, no cache; secret a may be rejected by
\* the remote KMS, for good or for a while
InitAliases ==
  /\ InitCache({DisabledOptions})
  /\ InitClientIdle
  /\ inputs = [NoInputs EXCEPT !.configs = AliasChoices,
                               !.responses = {DataResponse("v1")},
                               !.errors = {ErrSecretNotFound, ErrNetworkTimeout},
                               !.failing = {<<"a">>}, !.jitters = {0}]

SpecAliases == InitAliases /\ [][NextConfig]_vars

-----------------------------------------------------------------------------
(* Properties of the cache engine *)

Resident(k) == MapHas(cache, generateKey(k))
Item(k) == MapGet(cache, generateKey(k))
ItemAfter(k) == MapGet(cache', generateKey(k))
Live(k) == Resident(k) /\ now <= Item(k).expiresAt
Evicted == MapKeys(cache) \ MapKeys(cache')

\* C1: on an enabled cache the number of resident entries never exceeds
\* maxSize, whatever the sets, reads and clock values.
C1_SizeNeverExceedsMaxSize == config.enabled => Len(cache) <= config.maxSize

\* C2 (as stated): a capacity-triggered eviction removes an entry whose
\* lastAccessedAt is <= that of every entry resident at that moment, and a get
\* hit on a key makes it strictly more recent than every other resident key.
C2_HitStrictlyMoreRecent ==
  [][/\ \A k \in inputs.keys, v \in inputs.values, t \in inputs.ttls : CacheSet(k, v, t) =>
          \A e \in Evicted : \A i \in 1..Len(cache) :
             MapGet(cache, e).lastAccessedAt <= cache[i].item.lastAccessedAt
     /\ \A k \in inputs.keys : (CacheGet(k) /\ Live(k)) =>
          \A j \in inputs.keys \ {k} : Resident(j) =>
             ItemAfter(k).lastAccessedAt > ItemAfter(j).lastAccessedAt]_vars

\* C2 (amended): a capacity-triggered eviction removes an entry whose
\* lastAccessedAt is <= that of every entry resident at that moment, whatever
\* the accessCount and the expiry of the entries; a get hit on a key makes its
\* lastAccessedAt the current time, which is >= that of every resident entry
\* and > that of every entry last accessed at an earlier clock value.
C2_EvictsLeastRecentlyUsed ==
  [][/\ \A k \in inputs.keys, v \in inputs.values, t \in inputs.ttls : CacheSet(k, v, t) =>
          \A e \in Evicted : \A i \in 1..Len(cache) :
             MapGet(cache, e).lastAccessedAt <= cache[i].item.lastAccessedAt
     /\ \A k \in inputs.keys : (CacheGet(k) /\ Live(k)) =>
          /\ ItemAfter(k).lastAccessedAt = now
          /\ \A j \in inputs.keys \ {k} : Resident(j) =>
               /\ ItemAfter(k).lastAccessedAt >= ItemAfter(j).lastAccessedAt
               /\ Item(j).lastAccessedAt < now =>
                    ItemAfter(k).lastAccessedAt > ItemAfter(j).lastAccessedAt]_vars

\* a set has evicted an entry and kept an older-inserted one that was read
C2_Witness ==
  /\ call.op = "set"
  /\ Len(events) = 2
  /\ events[1].type = "delete"
  /\ Len(cache) >= 2
  /\ cache[1].item.accessCount > 0
  /\ cache[1].item.createdAt < cache[1].item.lastAccessedAt

\* C3: set(k, v, t) with t > 0 stores v with expiresAt = now + t seconds; no
\* operation other than a set of k changes the value or expiry of a resident
\* entry; a get(k) while now <= expiresAt returns the stored value; a get(k)
\* once now > expiresAt returns null, removes the entry and emits 'expire'.
C3_GetAfterSet ==
  [][/\ \A k \in inputs.keys, v \in inputs.values, t \in inputs.ttls :
          (CacheSet(k, v, t) /\ config.enabled /\ t # NoNumber /\ t[1] > 0) =>
             /\ MapHas(cache', generateKey(k))
             /\ ItemAfter(k).value = v
             /\ ItemAfter(k).expiresAt = now + t[1] * MsPerSecond
     /\ \A k \in inputs.keys : (Resident(k) /\ MapHas(cache', generateKey(k))) =>
          \/ \E v \in inputs.values, t \in inputs.ttls : CacheSet(k, v, t)
          \/ /\ ItemAfter(k).value = Item(k).value
             /\ ItemAfter(k).expiresAt = Item(k).expiresAt
     /\ \A k \in inputs.keys : (CacheGet(k) /\ Resident(k)) =>
          IF now <= Item(k).expiresAt
          THEN /\ ret' = Item(k).value
               /\ MapHas(cache', generateKey(k))
          ELSE /\ ret' = Null
               /\ ~MapHas(cache', generateKey(k))
               /\ events' = <<Event("expire", k, Undefined)>>]_vars

\* a get found its entry expired: it returned null and removed the entry
C3_Witness ==
  /\ call.op = "get"
  /\ ret = Null
  /\ events = <<Event("expire", call.key, Undefined)>>
  /\ ~Resident(call.key)
  /\ missCount = 1

\* C4: has(k) returns true exactly when k has a resident entry with
\* now <= expiresAt; it changes neither hitCount nor missCount and emits no
\* event; an expired entry is removed by has and reported absent; no other
\* entry is touched.
C4_HasIsSilent ==
  [][\A k \in inputs.keys : (CacheHas(k) /\ config.enabled) =>
       /\ ret' \in {True, False}
       /\ ret' = True <=> Live(k)
       /\ hitCount' = hitCount
       /\ missCount' = missCount
       /\ events' = <<>>
       /\ (Resident(k) /\ ~Live(k)) => ~MapHas(cache', generateKey(k))
       /\ Live(k) => cache' = cache
       /\ \A j \in inputs.keys \ {k} :
            /\ MapHas(cache', generateKey(j)) <=> Resident(j)
            /\ Resident(j) => ItemAfter(j) = Item(j)]_vars

\* has has answered false for a key after the expiry of the entries set at
\* time 0, with the counters untouched and the key no longer resident
C4_Witness ==
  /\ call.op = "has"
  /\ ret = False
  /\ config.enabled
  /\ now > MsPerSecond
  /\ ~Resident(call.key)
  /\ events = <<>>
  /\ hitCount = 0 /\ missCount = 0
  /\ Len(cache) > 0

\* the number of distinct names of the long list
MaxNames == 11

\* MaxNames distinct one-letter names, the first one twice
LongList == [k \in 1..MaxNames |-> <<LowerCase[k]>>] \o <<<<LowerCase[1]>>>>

ArrayOf(items) == [isArray |-> TRUE, items |-> items]

NotAnArray == [isArray |-> FALSE, items |-> <<>>]

\* one getMultipleSecrets call, no cache; the fetches of two names may fail
InitMulti ==
  /\ now = 0
  /\ InitCache({DisabledOptions})
  /\ InitClientIdle
  /\ inputs = [NoInputs EXCEPT
        !.lists = {ArrayOf(LongList), ArrayOf(<<<<"a">>, <<"a">>, <<"b">>>>),
                   ArrayOf(<<ProtoKey, <<"a">>>>), ArrayOf(<<<<"a">>, <<" ">>>>),
                   ArrayOf(<<>>), NotAnArray},
        !.responses = {DataResponse("v1")},
        !.errors = {ErrNetworkTimeout, ErrSecretNotFound},
        !.failing = {<<"a">>, ProtoKey}, !.jitters = {0}]

NextMulti == CallMulti \/ AdvanceMulti \/ BeginFetch \/ RemoteOk \/ RemoteFail \/ TimerFires

SpecMulti == InitMulti /\ [][NextMulti]_vars

\* the event loop runs every continuation that is ready, the remote source
\* answers every request and every timer fires
SpecMultiFair == SpecMulti /\ WF_vars(NextMulti)

\* a value is cached before warmupCache is called
Prefill == \E k \in inputs.keys, v \in inputs.values :
             /\ service.warmup.pc = "idle"
             /\ CacheSet(k, v, NoNumber) /\ UNCHANGED <<now, inputs>> /\ UNCHANGED clientVars

Warmup(secretNames, force) == [secretNames |-> secretNames, force |-> force]

CallWarmup == \E w \in inputs.warmups : StartWarmup(w.secretNames, w.force)

\* one warmupCache call over a cache of 1 s that may hold "a" and "b", live or
\* expired, or with caching disabled; the remote KMS may reject "b" for good
InitWarmup ==
  /\ InitCache({Options(TRUE, <<1>>, <<2>>, <<"p", ":">>), DisabledOptions})
  /\ InitClientIdle
  /\ inputs = [NoInputs EXCEPT
        !.keys = {<<"a">>, <<"b">>}, !.values = {"v0"},
        !.warmups = {Warmup(<<<<"a">>, <<"b">>>>, FALSE), Warmup(<<<<"a">>, <<"a">>>>, FALSE),
                     Warmup(<<>>, FALSE), Warmup(<<<<"a">>, <<"b">>>>, TRUE)},
        !.responses = {DataResponse("v1")},
        !.errors = {ErrSecretNotFound}, !.failing = {<<"b">>}, !.jitters = {0}]

NextWarmup ==
  Prefill \/ Tick \/ CallWarmup \/ AdvanceWarmup \/ AdvanceMulti \/ BeginFetch \/ RemoteOk \/ RemoteFail

SpecWarmup == InitWarmup /\ [][NextWarmup]_vars

\* refreshSecretCache is called once, when every earlier getSecretValue call
\* is past its await of ensureInitialized (a response that is handled before
\* the refresh reads the cache then belongs to a request issued before the
\* refresh was called)
CallRefresh ==
  \E n \in inputs.names :
     /\ \A i \in 1..Len(fetch) : fetch[i].owner # "refresh" /\ fetch[i].pc # "init"
     /\ StartRefresh(n)

\* one refreshSecretCache call next to direct getSecretValue calls for the
\* same secret, a cache of 1 s, a remote KMS whose secret changes from "v1"
\* to "v2" and that may reject a request for good
InitRefresh ==
  /\ InitCache({Options(TRUE, <<1>>, <<2>>, <<"p", ":">>)})
  /\ InitClientIdle
  /\ inputs = [NoInputs EXCEPT !.names = {<<"a">>}, !.skips = {FALSE}, !.calls = MaxCalls,
                               !.responses = {DataResponse("v1"), DataResponse("v2")},
                               !.errors = {ErrSecretNotFound}, !.failing = {<<"a">>},
                               !.jitters = {0}]

NextRefresh == StartFetch \/ CallRefresh \/ BeginFetch \/ RemoteOk \/ RemoteFail

SpecRefresh == InitRefresh /\ [][NextRefresh]_vars

CallCheck == StartCheck

\* calls for two secrets and for an invalid name over a cache of 1 s that only
\* the client writes; the remote KMS answers with data, without a body, or
\* rejects the request for "b" for good or for a while
InitIntegrity ==
  /\ InitCache({Options(TRUE, <<1>>, <<2>>, <<"p", ":">>)})
  /\ InitClientIdle
  /\ inputs = [NoInputs EXCEPT
        !.names = {<<"a">>, <<"b">>, <<" ">>}, !.skips = {FALSE}, !.calls = MaxCalls,
        !.responses = {DataResponse("v1"), NoBodyResponse},
        !.errors = {ErrNetworkTimeout, ErrSecretNotFound},
        !.failing = {<<"b">>}, !.jitters = {0}]

SpecIntegrity == InitIntegrity /\ [][NextRetry]_vars

ClearSecret == \E n \in inputs.names : ClearSecretCache(n)

\* the cache management calls of a client with an enabled cache, with an
\* injected cache that is disabled, and without a cache
InitManage ==
  /\ InitCache({Options(TRUE, <<1>>, <<2>>, <<"p", ":">>), DisabledOptions})
  /\ InitClientIdle
  /\ \E injected \in BOOLEAN :
        /\ ~injected => ~config.enabled
        /\ inputs = [NoInputs EXCEPT
              !.keys = {<<"a">>, <<"b">>}, !.values = {"v0"}, !.ttls = {NoNumber},
              !.names = {<<"a">>, <<"b">>}, !.cacheInjected = injected]

NextManage == Prefill \/ Read \/ ClearSecret \/ ClearAllCache \/ GetCacheStats \/ Tick

SpecManage == InitManage /\ [][NextManage]_vars

CallDefault == StartDefault

\* one getSecretValue call and one getMultipleSecrets call over a cache of 1 s
\* that may already hold "a", or without caching, in a client that was
\* initialised or not; the remote KMS answers, or rejects "b" for good or for
\* a while
InitTermination ==
  /\ InitCache({Options(TRUE, <<1>>, <<2>>, <<"p", ":">>), DisabledOptions})
  /\ InitClientIdle
  /\ \E e \in {NoError, ErrInitFailed} :
        inputs = [NoInputs EXCEPT
          !.keys = {<<"a">>}, !.values = {"v0"},
          !.names = {<<"a">>}, !.skips = {FALSE}, !.calls = 1,
          !.lists = {ArrayOf(<<<<"a">>, <<"b">>>>), ArrayOf(<<<<"b">>, <<"a">>, <<"b">>>>)},
          !.responses = {DataResponse("v1")},
          !.errors = {ErrNetworkTimeout, ErrSecretNotFound},
          !.failing = {<<"b">>}, !.jitters = {0},
          !.initError = e]

NextTermination ==
  Prefill \/ StartFetch \/ CallMulti \/ AdvanceMulti \/ BeginFetch \/ RemoteOk \/ RemoteFail \/ TimerFires

SpecTermination == InitTermination /\ [][NextTermination]_vars

\* the event loop runs every continuation that is ready, the remote KMS
\* resolves or rejects every request and every backoff timer fires
SpecTerminationFair ==
  /\ SpecTermination
  /\ WF_vars(BeginFetch) /\ WF_vars(RemoteOk \/ RemoteFail)
  /\ WF_vars(TimerFires) /\ WF_vars(AdvanceMulti)

\* calls for one secret whose requests are all issued before the first clear:
\* after a clear has returned, every response still to come answers a request
\* that was in flight at the clear
IssueBeforeClear == service.manage.op = "none" /\ BeginFetch

InitClear ==
  /\ InitCache({Options(TRUE, <<1>>, <<2>>, <<"p", ":">>)})
  /\ InitClientIdle
  /\ inputs = [NoInputs EXCEPT
        !.names = {<<"a">>}, !.skips = {FALSE}, !.calls = MaxCalls + 1,
        !.responses = {DataResponse("v1"), DataResponse("v2")}, !.jitters = {0}]

NextClear == StartFetch \/ IssueBeforeClear \/ RemoteOk \/ ClearSecret \/ ClearAllCache

SpecClear == InitClear /\ [][NextClear]_vars

\* calls with valid and invalid arguments on an enabled cache that may hold
\* "a": one getSecretValue call, one getMultipleSecrets call, one
\* getDefaultSecretValue call with or without a configured default; the
\* remote fetch of "a" may time out and be retried
InitValidation ==
  /\ InitCache({Options(TRUE, <<1>>, <<2>>, <<"p", ":">>)})
  /\ InitClientIdle
  /\ \E name \in {EmptyString, <<"a">>} :
        inputs = [NoInputs EXCEPT
           !.keys = {<<"a">>}, !.values = {"v0"},
           !.names = {<<"a">>, EmptyString, <<" ">>, <<"a", " ", "b">>},
           !.skips = {FALSE}, !.calls = 1,
           !.lists = {[isArray |-> FALSE, items |-> <<>>],
                      [isArray |-> TRUE, items |-> <<<<"a">>>>],
                      [isArray |-> TRUE, items |-> <<<<"a">>, EmptyString>>],
                      [isArray |-> TRUE, items |-> <<<<"b">>, <<"a", "@">>, <<"a">>>>]},
           !.defaultSecretName = name,
           !.responses = {DataResponse("v1")},
           !.errors = {ErrNetworkTimeout}, !.failing = {<<"a">>}, !.jitters = {0}]

NextValidation ==
  \/ Prefill \/ StartFetch \/ CallMulti \/ CallDefault
  \/ AdvanceMulti \/ BeginFetch \/ RemoteOk \/ RemoteFail \/ TimerFires

SpecValidation == InitValidation /\ [][NextValidation]_vars

\* one checkConnection call and one direct getSecretValue call in a service
\* with or without a default secret name, whose client was created or could
\* not be created; the default secret may be cached, and its remote fetch may
\* fail for good or for a while
InitCheck ==
  /\ InitCache({Options(TRUE, <<1>>, <<2>>, <<"p", ":">>), DisabledOptions})
  /\ InitClientIdle
  /\ \E name \in {EmptyString, <<"a">>}, e \in {NoError, ErrInitFailed} :
        inputs = [NoInputs EXCEPT
           !.keys = {<<"a">>}, !.values = {"v0"},
           !.names = {<<"a">>}, !.skips = {FALSE}, !.calls = 1,
           !.defaultSecretName = name, !.initError = e,
           !.responses = {DataResponse("v1")},
           !.errors = {ErrNetworkTimeout, ErrSecretNotFound},
           !.failing = {<<"a">>}, !.jitters = JitterChoices]

NextCheck ==
  Prefill \/ CallCheck \/ AdvanceCheck \/ StartFetch \/ BeginFetch \/ RemoteOk \/ RemoteFail \/ TimerFires

SpecCheck == InitCheck /\ [][NextCheck]_vars

-----------------------------------------------------------------------------
(* Properties of the secrets client *)

Calls == 1..Len(fetch)

\* the step is a step of call i
StepOf(i) == i \in Calls /\ fetch'[i] # fetch[i]

\* C5: a call whose remote fetch keeps failing with retryable errors makes
\* exactly 3 remote attempts (2 retries, each logged with one warning) and then
\* raises the error of the last attempt; a successful attempt ends the call
\* with the fetched value and no further attempt is ever made.
C5_ThreeAttemptsThenLastError ==
  /\ [](\A i \in Calls :
          /\ fetch[i].calls <= 3
          /\ fetch[i].pc = "sleeping" => fetch[i].warns = fetch[i].calls
          /\ fetch[i].pc \in {"remote", "returned"} => fetch[i].warns = fetch[i].calls - 1
          /\ (fetch[i].pc = "raised" /\ fetch[i].raised \in RemoteErrors
              /\ ~isNonRetryableError(fetch[i].raised)) =>
                (fetch[i].calls = 3 /\ fetch[i].warns = 2))
  /\ [][\A i \in Calls :
          /\ \A e \in inputs.errors, j \in inputs.jitters :
               (RespondFail(i, e, j) /\ ~isNonRetryableError(e)) =>
                  IF fetch[i].calls = 3
                  THEN fetch'[i].pc = "raised" /\ fetch'[i].raised = e
                  ELSE /\ fetch'[i].pc = "sleeping"
                       /\ fetch'[i].calls = fetch[i].calls
          /\ \A r \in inputs.responses : RespondOk(i, r) =>
               /\ fetch'[i].pc = "returned"
               /\ fetch'[i].result = (IF r.hasBody /\ r.hasData THEN r.data ELSE "")
               /\ fetch'[i].calls = fetch[i].calls
          /\ Wake(i) => fetch'[i].calls = fetch[i].calls + 1
          /\ Finished(fetch[i]) => fetch'[i] = fetch[i]]_vars

\* fail, fail, succeed: the value after exactly 3 calls and 2 warnings
C5_Witness ==
  \E i \in Calls :
     /\ fetch[i].pc = "returned"
     /\ fetch[i].result = "v1"
     /\ fetch[i].calls = 3
     /\ fetch[i].warns = 2

C6_Patterns == {
  <<"u", "n", "a", "u", "t", "h", "o", "r", "i", "z", "e", "d">>,
  <<"f", "o", "r", "b", "i", "d", "d", "e", "n">>,
  <<"a", "c", "c", "e", "s", "s", " ", "d", "e", "n", "i", "e", "d">>,
  <<"i", "n", "v", "a", "l", "i", "d", " ", "s", "i", "g", "n", "a", "t", "u", "r", "e">>,
  <<"i", "n", "v", "a", "l", "i", "d", " ", "a", "c", "c", "e", "s", "s", " ", "k", "e", "y">>,
  <<"i", "n", "v", "a", "l", "i", "d", " ", "p", "a", "r", "a", "m", "e", "t", "e", "r">>,
  <<"s", "e", "c", "r", "e", "t", " ", "n", "o", "t", " ", "f", "o", "u", "n", "d">>,
  <<"b", "a", "d", " ", "r", "e", "q", "u", "e", "s", "t">> }

C6_Listed(e) == \E p \in C6_Patterns : includes(toLowerCase(getErrorMessage(e)), p)

\* C6: a remote failure whose message contains, in any letter case, one of
\* the eight listed phrases is raised at once as that same error, whichever
\* attempt it was: no backoff sleep, no warning, no further remote call.
C6_NonRetryableRaisedAtOnce ==
  [][\A i \in Calls :
       /\ \A e \in inputs.errors, j \in inputs.jitters :
            (RespondFail(i, e, j) /\ C6_Listed(e)) =>
               /\ fetch'[i].pc = "raised"
               /\ fetch'[i].raised = e
               /\ fetch'[i].calls = fetch[i].calls
               /\ fetch'[i].warns = fetch[i].warns
               /\ fetch'[i].delay = 0
       /\ (fetch[i].pc = "raised" /\ C6_Listed(fetch[i].raised)) =>
            fetch'[i].calls = fetch[i].calls /\ fetch'[i].pc = "raised"]_vars

\* a retryable failure, then Error('FORBIDDEN') on the second attempt
C6_Witness ==
  \E i \in Calls :
     /\ fetch[i].pc = "raised"
     /\ getErrorMessage(fetch[i].raised) = <<"F", "O", "R", "B", "I", "D", "D", "E", "N">>
     /\ fetch[i].calls = 2
     /\ fetch[i].warns = 1

\* C7: with caching enabled and skipCache = false, a call that finds a live
\* entry for its name returns the cached value with zero remote calls; its
\* first remote call is issued only after a cache miss (no entry, or expired).
C7_HitMeansNoRemoteCall ==
  /\ [](\A i \in Calls :
          (fetch[i].calls = 0 /\ fetch[i].pc # "init") => fetch[i].pc \in {"returned", "raised"})
  /\ [][\A i \in Calls :
          (Begin(i) /\ ~fetch[i].skipCache /\ config.enabled
           /\ validateSecretName(fetch[i].name) = NoError) =>
             IF Live(fetch[i].name)
             THEN /\ fetch'[i].pc = "returned"
                  /\ fetch'[i].result = Item(fetch[i].name).value
                  /\ fetch'[i].calls = 0
             ELSE /\ fetch'[i].pc = "remote"
                  /\ fetch'[i].calls = 1
                  /\ events'[1].type \in {"miss", "expire"}]_vars

\* a call was served from the cache: a hit and no remote call
C7_Witness ==
  \E i \in Calls :
     /\ ~fetch[i].skipCache
     /\ fetch[i].pc = "returned"
     /\ fetch[i].calls = 0
     /\ call = [op |-> "get", key |-> fetch[i].name]
     /\ events = <<Event("hit", fetch[i].name, fetch[i].result)>>

\* C8: a call with skipCache = true issues a remote fetch even when its name
\* is live in the cache, and none of its steps touches the cache: store,
\* counters, last operation and events stay as they are.  With skipCache =
\* false a successful remote fetch stores the fetched value under the name
\* in the step that returns it.
C8_SkipCacheBypassesCache ==
  [][\A i \in Calls :
       /\ (Begin(i) /\ fetch[i].skipCache /\ validateSecretName(fetch[i].name) = NoError) =>
            (fetch'[i].pc = "remote" /\ fetch'[i].calls = 1)
       /\ (StepOf(i) /\ fetch[i].skipCache) => UNCHANGED cacheVars
       /\ \A r \in inputs.responses :
            (RespondOk(i, r) /\ ~fetch[i].skipCache /\ config.enabled) =>
               /\ MapHas(cache', generateKey(fetch[i].name))
               /\ ItemAfter(fetch[i].name).value = (IF r.hasBody /\ r.hasData THEN r.data ELSE "")
               /\ fetch'[i].result = ItemAfter(fetch[i].name).value
               /\ fetch'[i].pc = "returned"]_vars

\* a skipCache call has returned a remote value that differs from the live
\* cached one, and the cached one is still there
C8_Witness ==
  \E i \in Calls :
     /\ fetch[i].skipCache
     /\ fetch[i].pc = "returned"
     /\ fetch[i].calls >= 1
     /\ Live(fetch[i].name)
     /\ Item(fetch[i].name).value # fetch[i].result

\* the per-name fetches of the getMultipleSecrets call
MultiCalls == {i \in Calls : fetch[i].owner = "multi"}

Range(f) == {f[k] : k \in DOMAIN f}

\* C9: during one getMultipleSecrets call never more than 10 of its per-name
\* fetches are in flight, a fetch of a later chunk of 10 exists only when
\* every fetch of the earlier chunks has returned or raised, and every
\* distinct name of a valid list is eventually fetched to its end.
C9_AtMostTenInFlightChunkByChunk ==
  /\ [](Cardinality({i \in MultiCalls : ~Finished(fetch[i])}) <= 10)
  /\ [](\A p, q \in MultiCalls :
          ((fetch[p].pos - 1) \div 10 < (fetch[q].pos - 1) \div 10) => Finished(fetch[p]))
  /\ (multi.pc = "running") ~>
        /\ multi.pc \in {"returned", "raised"}
        /\ \A n \in Range(multi.secretNames) :
              \E i \in MultiCalls : fetch[i].name = n /\ Finished(fetch[i])

\* the eleventh name is being fetched after the first ten have finished, one
\* of them after all its retries
C9_Witness ==
  /\ multi.pc = "running"
  /\ Len(multi.secretNames) > 10
  /\ \E q \in MultiCalls : fetch[q].pos = 11 /\ fetch[q].pc = "remote"
  /\ \E p \in MultiCalls : fetch[p].pos <= 10 /\ fetch[p].pc = "raised" /\ fetch[p].calls = 3

\* C10: each distinct name of the list is fetched by exactly one call, and a
\* getMultipleSecrets that returns has a result map with exactly one entry
\* per distinct name.
C10_OneFetchAndOneEntryPerName ==
  /\ \A n \in Range(multi.secretNames) :
        Cardinality({i \in MultiCalls : fetch[i].name = n}) <= 1
  /\ multi.pc = "returned" =>
        /\ \A n \in Range(multi.secretNames) :
              Cardinality({i \in MultiCalls : fetch[i].name = n}) = 1
        /\ DOMAIN multi.results = Range(multi.secretNames)

\* C10, names other than __proto__: fetched once each and one entry each
C10_PlainNames ==
  /\ \A n \in Range(multi.secretNames) :
        Cardinality({i \in MultiCalls : fetch[i].name = n}) <= 1
  /\ multi.pc = "returned" =>
        /\ \A n \in Range(multi.secretNames) :
              Cardinality({i \in MultiCalls : fetch[i].name = n}) = 1
        /\ DOMAIN multi.results = Range(multi.secretNames) \ {ProtoKey}

\* [a, a, b] has returned: two fetches and a map of two entries
C10_Witness ==
  /\ multi.pc = "returned"
  /\ multi.secretNames = <<<<"a">>, <<"a">>, <<"b">>>>
  /\ Cardinality(MultiCalls) = 2
  /\ DOMAIN multi.results = {<<"a">>, <<"b">>}

\* the call returns although the fetch of __proto__ has raised
C10_ErrorLost ==
  /\ multi.pc = "returned"
  /\ \E i \in MultiCalls : fetch[i].pc = "raised"

\* the names whose fetch has raised
FailedNames == {fetch[i].name : i \in {j \in MultiCalls : fetch[j].pc = "raised"}}

\* the fetch of name n
FetchOf(n) == CHOOSE i \in MultiCalls : fetch[i].name = n

\* C11: getMultipleSecrets ends only when every distinct name has been
\* fetched to its end, whatever failed before; it raises one aggregate error
\* that lists exactly the failed names with their messages, and it returns
\* normally only if no name failed.
C11_AllAttemptedThenAggregate ==
  /\ (multi.pc \in {"returned", "raised"} /\ multi.unique # <<>>) =>
        \A n \in Range(multi.secretNames) :
           \E i \in MultiCalls : fetch[i].name = n /\ Finished(fetch[i])
  /\ (multi.pc = "raised" /\ multi.unique # <<>>) =>
        /\ multi.raised = ErrAggregate
        /\ DOMAIN multi.errors = FailedNames
        /\ \A n \in FailedNames : multi.errors[n] = getErrorMessage(fetch[FetchOf(n)].raised)
  /\ multi.pc = "returned" => FailedNames = {}

\* C11, names other than __proto__: listed when failed, and the call raises
C11_PlainNames ==
  /\ (multi.pc \in {"returned", "raised"} /\ multi.unique # <<>>) =>
        \A n \in Range(multi.secretNames) :
           \E i \in MultiCalls : fetch[i].name = n /\ Finished(fetch[i])
  /\ (multi.pc = "raised" /\ multi.unique # <<>>) =>
        /\ multi.raised = ErrAggregate
        /\ DOMAIN multi.errors = FailedNames \ {ProtoKey}
        /\ \A n \in FailedNames \ {ProtoKey} :
              multi.errors[n] = getErrorMessage(fetch[FetchOf(n)].raised)
  /\ multi.pc = "returned" => FailedNames \subseteq {ProtoKey}

\* the first name of the long list failed after its retries, the eleventh
\* was still fetched, and the aggregate error names the first only
C11_Witness ==
  /\ multi.pc = "raised"
  /\ Len(multi.secretNames) > 10
  /\ FailedNames = {<<"a">>}
  /\ DOMAIN multi.errors = {<<"a">>}
  /\ \E q \in MultiCalls : fetch[q].pos = 11 /\ fetch[q].pc = "returned"

-----------------------------------------------------------------------------
(* Properties of the cache engine: disabled cache, clear, delete, listeners,
   teardown *)

\* C16: a cache constructed with enabled = false does nothing for its whole
\* life: whatever single or bulk operations were called, the store is empty,
\* both counters are 0, the last operation emitted no event, there is no
\* sweep timer; get returns null, has and delete return false, getKeys (and
\* mget) return nothing, mdel returns 0.
C16_DisabledIsNoOp ==
  ~config.enabled =>
     /\ cache = <<>>
     /\ hitCount = 0 /\ missCount = 0
     /\ events = <<>>
     /\ ~timerOn
     /\ call.op = "get" => ret = Null
     /\ call.op \in {"has", "delete"} => ret = False
     /\ call.op \in {"getKeys", "mget"} => ret = <<>>
     /\ call.op = "mdel" => ret = 0

\* a bulk set on the disabled cache has left it empty
C16_Witness ==
  /\ ~config.enabled
  /\ call.op = "mset"
  /\ cache = <<>>
  /\ now > 0

ClearEvent == Event("clear", <<"a", "l", "l">>, Undefined)

\* C17: clear() on an enabled cache leaves the store empty and both counters
\* 0 and emits the single event 'clear', whatever the state before; a get
\* that comes right after it is a miss.
C17_ClearResetsEverything ==
  /\ [][(CacheClear /\ config.enabled) =>
          /\ cache' = <<>>
          /\ hitCount' = 0 /\ missCount' = 0
          /\ events' = <<ClearEvent>>]_vars
  /\ [][\A k \in inputs.keys :
          (call.op = "clear" /\ config.enabled /\ CacheGet(k)) =>
             /\ ret' = Null
             /\ hitCount' = 0 /\ missCount' = 1
             /\ events' = <<Event("miss", k, Undefined)>>]_vars

\* a clear later than the first operations, on an enabled cache
C17_Witness ==
  /\ config.enabled
  /\ call.op = "clear"
  /\ events = <<ClearEvent>>
  /\ cache = <<>> /\ hitCount = 0 /\ missCount = 0
  /\ now > 0

\* C18: delete(k) returns true and emits one 'delete' event exactly when an
\* entry for k was resident, and then that entry is gone and nothing else
\* changed; otherwise it returns false, emits nothing and changes nothing.
\* mdel(keys) returns the number of its keys that were resident, removes
\* those and leaves every other entry as it was.
C18_DeleteReportsRemoval ==
  /\ [][\A k \in inputs.keys : CacheDelete(k) =>
          /\ hitCount' = hitCount /\ missCount' = missCount
          /\ IF Resident(k)
             THEN /\ ret' = True
                  /\ events' = <<Event("delete", k, Undefined)>>
                  /\ ~MapHas(cache', generateKey(k))
                  /\ Len(cache') = Len(cache) - 1
                  /\ \A j \in 1..Len(cache') : \E i \in 1..Len(cache) : cache'[j] = cache[i]
             ELSE /\ ret' = False
                  /\ events' = <<>>
                  /\ cache' = cache]_vars
  /\ [][\A ks \in inputs.keyLists : CacheMdel(ks) =>
          /\ ret' = Cardinality({k \in Range(ks) : Resident(k)})
          /\ Len(events') = ret'
          /\ \A k \in Range(ks) : ~MapHas(cache', generateKey(k))
          /\ Len(cache') = Len(cache) - ret'
          /\ \A i \in 1..Len(cache) :
                (\A k \in Range(ks) : cache[i].key # generateKey(k)) =>
                   \E j \in 1..Len(cache') : cache'[j] = cache[i]]_vars

\* mdel of a list that names one resident key twice and an absent key:
\* one removal counted, the other entry still there
C18_Witness ==
  /\ call.op = "mdel"
  /\ ret = 1
  /\ events = <<Event("delete", <<"a">>, Undefined)>>
  /\ Len(cache) = 1
  /\ Resident(<<"b">>)

\* C19: a listener that throws breaks nothing: no exception leaves
\* emitEvent, so the operation runs to its end, and every listener
\* registered at the time is called with every event of the operation, in
\* order, the ones after the thrower included; each exception is logged.
C19_ThrowingListenerIsIsolated ==
  /\ ~delivery.escaped
  /\ \A l \in DOMAIN delivery.received : delivery.received[l] = events
  /\ delivery.warned = Len(events) * Cardinality(DOMAIN delivery.received \cap ThrowingListeners)

\* an eviction and a set seen by the throwing listener first and by the
\* other one after it
C19_Witness ==
  /\ eventListeners = <<"bad", "L1">>
  /\ call.op = "set"
  /\ Len(events) = 2
  /\ delivery.received["L1"] = events
  /\ delivery.warned = 2
  /\ Len(cache) = 1

\* C20: onModuleDestroy leaves the store empty, the listener set empty and
\* the sweep timer cancelled; the timer is never started again, so no sweep
\* runs after it, and the events of later operations reach only listeners
\* registered at that later time.
C20_TeardownIsFinal ==
  /\ [][onModuleDestroy => (cache' = <<>> /\ eventListeners' = <<>> /\ ~timerOn')]_vars
  /\ [][~timerOn => (~timerOn' /\ ~Sweep)]_vars
  /\ [][(delivery' # delivery /\ ~onModuleDestroy) =>
          DOMAIN delivery'.received = Range(eventListeners)]_vars

\* after teardown a sweep period has passed without a sweep and a set has
\* been performed that no listener saw
C20_Witness ==
  /\ ~timerOn
  /\ now >= nextSweep
  /\ call.op = "set"
  /\ events # <<>>
  /\ eventListeners = <<>>
  /\ DOMAIN delivery.received = {}
  /\ cache # <<>>

-----------------------------------------------------------------------------
(* Properties of getSecretsWithConfig *)

ConfigCalls == {q \in 1..Len(fetch) : fetch[q].owner = "config"}
CurrentEntry == batchCall.entries[batchCall.index]
CurrentCall == CHOOSE q \in ConfigCalls : fetch[q].pos = batchCall.index

\* the loop of getSecretsWithConfig takes up the finished call of the
\* current entry
ConfigStep == batchCall.pc = "running" /\ batchCall' # batchCall

\* the call of getSecretValue for the current entry threw
FetchFailed == fetch[CurrentCall].pc = "raised"

\* the error message holds one of the five phrases
HoldsPhrase(message) ==
  \E i \in 1..Len(rethrownPhrases) : includes(message, rethrownPhrases[i])

\* the loop went on to the next entry and issued its call of getSecretValue
WentOn ==
  /\ batchCall'.pc = "running"
  /\ batchCall'.index = batchCall.index + 1
  /\ Len(fetch') = Len(fetch) + 1
  /\ fetch'[Len(fetch')].owner = "config"
  /\ fetch'[Len(fetch')].pos = batchCall.index + 1
  /\ fetch'[Len(fetch')].name = batchCall.entries[batchCall.index + 1].name

\* the loop was left by an error and no later entry is fetched
AbortedWith(error) ==
  /\ batchCall'.pc = "raised"
  /\ batchCall'.raised = error
  /\ fetch' = fetch

ThrewAt(i) ==
  \E q \in ConfigCalls :
     /\ fetch[q].pos = i /\ Finished(fetch[q])
     /\ tryError(fetch[q], batchCall.entries[i]) # NoError
     /\ ~usesDefault(batchCall.entries[i])

FailedRequired ==
  {i \in 1..Len(batchCall.entries) : batchCall.entries[i].required /\ ThrewAt(i)}

\* C13: getSecretsWithConfig never returns normally when a required entry
\* failed: a returned result means every required entry succeeded, and the
\* aggregate error names every failed required key and no other key.
C13_RequiredFailureAlwaysRaised ==
  /\ batchCall.pc = "returned" => FailedRequired = {}
  /\ batchCall.raised = ErrRequiredFailed
       => Range(batchCall.named) = {batchCall.entries[i].key : i \in FailedRequired}

\* C13, errors with a message: as long as no fetch of the batch was rejected
\* with an empty message the claim holds
C13_NonEmptyMessages ==
  (\A q \in ConfigCalls : fetch[q].raised # ErrEmptyMessage)
     => C13_RequiredFailureAlwaysRaised

\* the call returned a result although the fetch of a required entry failed
C13_FailureLost ==
  /\ batchCall.pc = "returned"
  /\ FailedRequired # {}
  /\ batchCall.failureCount > 0

\* the loop did not stop at the current entry: it went on to the next entry
\* or, after the last one, ended without blaming the current entry
Continued ==
  IF batchCall.index < Len(batchCall.entries) THEN WentOn
  ELSE /\ fetch' = fetch
       /\ \/ batchCall'.pc = "returned"
          \/ /\ batchCall'.pc = "raised"
             /\ batchCall'.raised = ErrRequiredFailed
             /\ CurrentEntry.key \notin Range(batchCall'.named)

\* the default of the current entry was stored under its alias, or under its
\* key when it has no alias, and nothing was recorded in failed
DefaultStored ==
  LET property == IF CurrentEntry.alias # EmptyString THEN CurrentEntry.alias
                  ELSE CurrentEntry.key
  IN /\ property \in DOMAIN batchCall'.success
     /\ batchCall'.success[property] = CurrentEntry.defaultValue[1]
     /\ \A k \in DOMAIN batchCall.success \ {property} :
           k \in DOMAIN batchCall'.success /\ batchCall'.success[k] = batchCall.success[k]
     /\ batchCall'.failed = batchCall.failed

\* the error of the current entry was recorded in failed under its key and
\* nothing was stored in success
FailureRecorded(error) ==
  /\ CurrentEntry.key \in DOMAIN batchCall'.failed
  /\ batchCall'.failed[CurrentEntry.key] = getErrorMessage(error)
  /\ batchCall'.success = batchCall.success

\* C14: when the fetch of an optional entry fails, an entry with a
\* defaultValue gets the default stored in success under its alias (or its
\* key), is not recorded in failed, and processing continues; an entry without
\* a defaultValue is recorded in failed under its key with the error message,
\* and processing continues. Neither aborts the batch nor is named in its
\* error. (Keys and aliases are ordinary identifiers.)
C14_OptionalFailureIsAbsorbed ==
  [][(ConfigStep /\ ~CurrentEntry.required /\ FetchFailed)
       => /\ IF CurrentEntry.defaultValue # <<>> THEN DefaultStored
             ELSE FailureRecorded(fetch[CurrentCall].raised)
          /\ Continued]_vars

\* three optional entries whose fetches all failed: the first has its default
\* under its alias, the third its empty default under its key, the second is
\* in failed, and the call returned
C14_Witness ==
  /\ batchCall.pc = "returned"
  /\ \A q \in ConfigCalls : fetch[q].raised = ErrSecretNotFound
  /\ DOMAIN batchCall.success = {<<"x">>, <<"k", "3">>}
  /\ batchCall.success[<<"x">>] = "d0"
  /\ batchCall.success[<<"k", "3">>] = ""
  /\ DOMAIN batchCall.failed = {<<"k", "2">>}
  /\ batchCall.failed[<<"k", "2">>] = getErrorMessage(ErrSecretNotFound)
  /\ batchCall.failureCount = 1 /\ batchCall.successCount = 2 /\ batchCall.total = 3

\* the error of the validation rule of entry i for the value that was
\* fetched for it, NoError when there is no rule or the value passes
ValidationError(i) ==
  IF \E q \in ConfigCalls : fetch[q].pos = i /\ fetch[q].pc = "returned"
  THEN LET q == CHOOSE q \in ConfigCalls : fetch[q].pos = i
           entry == batchCall.entries[i]
       IN IF entry.validation # <<>>
          THEN validateSecretValue(fetch[q].result, entry.validation[1])
          ELSE NoError
  ELSE NoError

\* the processed entries whose value failed its validation rule
FailedValidation ==
  {i \in 1..Len(batchCall.entries) :
     (i < batchCall.index \/ batchCall.pc \in {"returned", "raised"})
     /\ ValidationError(i) # NoError}

-----------------------------------------------------------------------------
(* Properties of the cache statistics *)

\* the last call was getStats and ret holds its CacheStats
StatsReturned == call.op = "getStats"

\* C21: getStats().hitRate is 0 when hitCount + missCount = 0 and otherwise
\* hitCount / (hitCount + missCount) to 4 decimal places (at most half a
\* ten-thousandth away), where hitCount and missCount are 0 at construction,
\* grow by one with every get hit and get miss, are reset by clear and are
\* changed by nothing else.
C21_HitRateIsHitsOverRequests ==
  /\ [](call.op = "new" => hitCount = 0 /\ missCount = 0)
  /\ [](StatsReturned
          => /\ ret.hitCount = hitCount /\ ret.missCount = missCount
             /\ IF hitCount + missCount = 0 THEN ret.hitRate = 0
                ELSE LET off == ret.hitRate * (hitCount + missCount) - 10000 * hitCount
                     IN 2 * off <= hitCount + missCount /\ -2 * off <= hitCount + missCount)
  /\ [][(\E k \in inputs.keys : CacheGet(k))
          => IF ret' # Null
             THEN hitCount' = hitCount + 1 /\ missCount' = missCount
             ELSE hitCount' = hitCount /\ missCount' = missCount + 1]_vars
  /\ [][CacheClear => hitCount' = 0 /\ missCount' = 0]_vars
  /\ [][(hitCount' # hitCount \/ missCount' # missCount)
          => (CacheClear \/ \E k \in inputs.keys : CacheGet(k))]_vars

\* two hits and one miss: getStats reports a hit rate of 0.6667
C21_Witness ==
  /\ StatsReturned
  /\ ret.hitCount = 2 /\ ret.missCount = 1
  /\ ret.hitRate = 6667

LiveEntries == {i \in 1..Len(cache) : now <= cache[i].item.expiresAt}

\* C22 (as stated): getStats().totalKeys is the number of live entries; an
\* expired entry that has not been removed yet is not counted.
C22_TotalKeysCountsLiveEntries ==
  StatsReturned => ret.totalKeys = Cardinality(LiveEntries)

\* C22 (amended): getStats().totalKeys is the number of resident entries:
\* the live ones and the expired ones that no get, has or sweep has removed
\* yet.
C22_TotalKeysCountsResidentEntries ==
  StatsReturned
    => /\ ret.totalKeys = Len(cache)
       /\ ret.totalKeys >= Cardinality(LiveEntries)

\* both entries have expired and are still in the store: getStats counts 2
C22_Witness ==
  /\ StatsReturned
  /\ ret.totalKeys = 2
  /\ LiveEntries = {}

-----------------------------------------------------------------------------
(* Properties of the time to live *)

\* the entry that a set of key k has just stored expires this many seconds
\* after the set
StoredTtl(k, seconds) ==
  /\ MapHas(cache', generateKey(k))
  /\ ItemAfter(k).expiresAt = now + seconds * MsPerSecond

\* C23 (as stated): set(k, v, override) gives the entry expiresAt = now +
\* override seconds for every supplied override, 0 included; without an
\* override the configured ttl is used as given, 0 included, and 300 s only
\* when no ttl is configured.
C23_EverySuppliedTtlIsHonoured ==
  [][\A k \in inputs.keys, v \in inputs.values, t \in inputs.ttls :
       CacheSet(k, v, t)
         => StoredTtl(k, IF t # NoNumber THEN t[1]
                         ELSE IF inputs.options.ttl # NoNumber THEN inputs.options.ttl[1]
                         ELSE DefaultTtl)]_vars

\* C23 (amended): set(k, v, override) gives the entry expiresAt = now +
\* override seconds for every supplied override other than 0; with no
\* override, or an override of 0, the ttl of the cache is used, which is the
\* configured ttl unless that is missing or 0, and then 300 s.
C23_NonZeroTtlIsHonoured ==
  [][\A k \in inputs.keys, v \in inputs.values, t \in inputs.ttls :
       CacheSet(k, v, t)
         => StoredTtl(k, IF t # NoNumber /\ t[1] # 0 THEN t[1]
                         ELSE IF inputs.options.ttl # NoNumber /\ inputs.options.ttl[1] # 0
                              THEN inputs.options.ttl[1]
                         ELSE DefaultTtl)]_vars

\* a set with an override of 0 on a cache configured with a ttl of 0 stored
\* an entry that lives 300 s
C23_Witness ==
  /\ inputs.ttls = {<<0>>}
  /\ inputs.options.ttl = <<0>>
  /\ call.op = "set"
  /\ Resident(call.key)
  /\ Item(call.key).expiresAt = Item(call.key).createdAt + DefaultTtl * MsPerSecond

-----------------------------------------------------------------------------
(* Properties of the retry policy: delays and configuration *)

\* C24: the sleep before retry k (k = 1 after the first failed attempt, k = 2
\* after the second) lasts 1000 * 2^(k-1) ms plus a jitter of 0..1000 ms, that
\* is 1000..2000 ms and then 2000..3000 ms, and the next attempt is made when
\* it is over; no sleep follows the third failed attempt, a non-retryable
\* failure or a success.
C24_BackoffDoublesWithJitter ==
  /\ [](\A i \in Calls :
          /\ fetch[i].pc = "sleeping"
               => /\ fetch[i].calls \in {1, 2}
                  /\ fetch[i].calls = 1 => fetch[i].delay \in 1000..2000
                  /\ fetch[i].calls = 2 => fetch[i].delay \in 2000..3000
                  /\ fetch[i].wakeAt <= now + fetch[i].delay
          /\ fetch[i].pc # "sleeping" => fetch[i].delay = 0 /\ fetch[i].wakeAt = 0)
  /\ [][\A i \in Calls :
          /\ \A e \in inputs.errors, j \in inputs.jitters :
               RespondFail(i, e, j)
                 => IF fetch[i].calls = 3 \/ C6_Listed(e)
                    THEN fetch'[i].pc = "raised"
                    ELSE /\ fetch'[i].pc = "sleeping"
                         /\ fetch'[i].delay = (IF fetch[i].calls = 1 THEN 1000 ELSE 2000) + j
                         /\ fetch'[i].wakeAt = now + fetch'[i].delay
          /\ \A r \in inputs.responses : RespondOk(i, r) => fetch'[i].pc = "returned"
          /\ Wake(i) => /\ now' >= fetch[i].wakeAt
                        /\ fetch'[i].pc = "remote"
                        /\ fetch'[i].calls = fetch[i].calls + 1]_vars

\* the second attempt failed too and the call sleeps 2999 ms before the third
C24_Witness ==
  \E i \in Calls :
     /\ fetch[i].pc = "sleeping"
     /\ fetch[i].calls = 2
     /\ fetch[i].delay = 2999
     /\ fetch[i].wakeAt = now + 2999
     /\ now >= 1000

\* the call ended with the error of a failure that is retried
GaveUp(i) ==
  /\ fetch[i].pc = "raised"
  /\ fetch[i].raised \in RemoteErrors
  /\ ~C6_Listed(fetch[i].raised)

C26_ConfiguredMaxRetriesGoverns ==
  \A i \in Calls :
     GaveUp(i) => fetch[i].calls = (IF inputs.maxRetries # NoNumber
                                    THEN inputs.maxRetries[1] ELSE 3)

\* C26, without maxRetries: the fetch makes 3 attempts
C26_DefaultMaxRetries ==
  \A i \in Calls : GaveUp(i) => fetch[i].calls = 3

\* maxRetries is 5 and the fetch gave up after 3 attempts
C26_ConfigIgnored ==
  \E i \in Calls : GaveUp(i) /\ inputs.maxRetries = <<5>> /\ fetch[i].calls = 3

-----------------------------------------------------------------------------
(* Properties of the cache warm-up *)

\* the names of a list
NamesOf(list) == {list[i] : i \in 1..Len(list)}

\* the names for which a remote fetch was issued
RemotelyFetched == {fetch[i].name : i \in {j \in 1..Len(fetch) : fetch[j].calls > 0}}

\* the warm-up call has started and every call it began has settled
WarmupSettled ==
  /\ service.warmup.pc # "idle"
  /\ multi.pc # "running"
  /\ \A i \in 1..Len(fetch) : Finished(fetch[i])

\* the names of secretNames that have a live entry in the cache now
LiveNames(secretNames) ==
  {n \in NamesOf(secretNames) :
     \E i \in 1..Len(cache) : cache[i].key = config.keyPrefix \o n
                              /\ now <= cache[i].item.expiresAt}

\* C27: warmupCache(names, force = false), called with valid names while no
\* other call is running, passes to getMultipleSecrets exactly the names that
\* have no live cache entry at the moment of the call; a remote fetch is
\* issued for every one of them and for no other name; with caching disabled
\* or with an empty list no call is started at all.
C27_WarmupFetchesOnlyUncachedNames ==
  [][/\ (service.warmup.pc = "idle" /\ service'.warmup.pc # "idle"
         /\ ~service'.warmup.force)
        => IF config.enabled
           THEN /\ NamesOf(service'.warmup.secretsToLoad)
                     = NamesOf(service'.warmup.secretNames)
                         \ LiveNames(service'.warmup.secretNames)
                /\ (service'.warmup.secretsToLoad = <<>>
                      => fetch' = <<>> /\ multi' = NoMulti /\ service'.warmup.pc = "returned")
           ELSE fetch' = <<>> /\ multi' = NoMulti /\ service'.warmup.pc = "returned"
     /\ (~service'.warmup.force /\ service'.warmup.pc # "idle")
        => /\ RemotelyFetched' \subseteq NamesOf(service'.warmup.secretsToLoad)
           /\ WarmupSettled' => RemotelyFetched' = NamesOf(service'.warmup.secretsToLoad)
    ]_vars

\* a warm-up without force over a list with one live and one missing or
\* expired name has finished, and the remote source was asked
C27_Witness ==
  /\ WarmupSettled
  /\ ~service.warmup.force
  /\ Len(service.warmup.secretNames) = 2
  /\ Len(service.warmup.secretsToLoad) = 1
  /\ RemotelyFetched = NamesOf(service.warmup.secretsToLoad)

\* C28 (as stated): warmupCache(names, true) fetches every listed name again
\* from the remote source, the names with a live cache entry included.
C28_ForceFetchesEveryName ==
  (WarmupSettled /\ service.warmup.force /\ config.enabled)
    => RemotelyFetched = NamesOf(service.warmup.secretNames)

\* a forced warm-up has finished, and a listed name was served from the cache
\* without any remote fetch
C28_ForcedNameServedFromCache ==
  /\ WarmupSettled
  /\ service.warmup.force
  /\ config.enabled
  /\ service.warmup.pc = "returned"
  /\ \E i \in 1..Len(fetch) : fetch[i].calls = 0 /\ fetch[i].result = "v0"

-----------------------------------------------------------------------------
(* Properties of the cache refresh *)

\* the getSecretValue calls made by refreshSecretCache
RefreshCalls == {i \in 1..Len(fetch) : fetch[i].owner = "refresh"}

\* C29 (as stated): under every interleaving with other calls of the client, a
\* refreshSecretCache(name) that has settled has issued at least one remote
\* fetch for name, so that a value it returns was fetched after it started.
C29_RefreshAlwaysFetches ==
  \A i \in RefreshCalls : Finished(fetch[i]) => fetch[i].calls >= 1

\* refreshSecretCache has returned a value without any remote fetch: the
\* response to an earlier getSecretValue call filled the cache between the
\* removal of the entry and the cache read of the refresh
C29_RefreshServedFromCache ==
  \E i \in RefreshCalls, j \in 1..Len(fetch) :
     /\ j < i
     /\ fetch[i].pc = "returned" /\ fetch[i].calls = 0
     /\ fetch[j].pc = "returned" /\ fetch[j].calls = 1
     /\ fetch[i].result = fetch[j].result

-----------------------------------------------------------------------------
(* Properties of the connection check *)

\* the getSecretValue calls made by checkConnection
CheckCalls == {i \in 1..Len(fetch) : fetch[i].owner = "check"}

\* the fetch of the default secret has failed: a remote call was rejected with
\* an error that is not retried, or MaxRetries remote calls were rejected
DefaultFetchFailed ==
  \E i \in CheckCalls :
     /\ fetch[i].pc = "raised"
     /\ fetch[i].name = inputs.defaultSecretName
     /\ fetch[i].calls >= 1
     /\ fetch[i].calls = MaxRetries \/ isNonRetryableError(fetch[i].raised)

\* C30 (as stated): checkConnection returns true whenever no default secret
\* name is configured, and returns false only when the fetch of the default
\* secret has failed.
C30_FalseOnlyWhenFetchFails ==
  /\ service.check.pc \in {"idle", "running", "true", "false"}
  /\ (service.check.pc # "idle" /\ inputs.defaultSecretName = <<>>)
       => service.check.pc = "true"
  /\ service.check.pc = "false" => DefaultFetchFailed

\* C30: checkConnection never raises. It returns false when the KMS client
\* could not be created, whether or not a default secret name is configured
\* and without any call for a secret, and when the fetch of the default secret
\* has failed after the retry policy; it returns true when the client was
\* created and either no default secret name is configured (no call for a
\* secret is made) or the call for the default secret has succeeded, from the
\* cache or from the remote source.
C30_FalseWhenInitOrFetchFails ==
  /\ service.check.pc \in {"idle", "running", "true", "false"}
  /\ service.check.pc = "false"
       => \/ inputs.initError # NoError /\ CheckCalls = {}
          \/ inputs.initError = NoError /\ DefaultFetchFailed
  /\ service.check.pc = "true"
       => /\ inputs.initError = NoError
          /\ IF inputs.defaultSecretName = <<>>
             THEN CheckCalls = {} /\ service.check.warns = 1
             ELSE \E i \in CheckCalls : fetch[i].pc = "returned"
                                        /\ fetch[i].name = inputs.defaultSecretName
  /\ service.check.pc = "running"
       => /\ inputs.initError = NoError
          /\ \E i \in CheckCalls : fetch[i].name = inputs.defaultSecretName
  /\ service.check.errorLogs = IF service.check.pc = "false" THEN 1 ELSE 0
  /\ \A i \in CheckCalls : fetch[i].pc = "raised" => service.check.pc \in {"running", "false"}

\* no default secret name is configured, no call for a secret was made, and
\* checkConnection has returned false because the client could not be created
C30_Witness ==
  /\ service.check.pc = "false"
  /\ inputs.defaultSecretName = <<>>
  /\ inputs.initError = ErrInitFailed
  /\ fetch = <<>>

-----------------------------------------------------------------------------
(* Properties of the cache engine: reads, sweep, replacement, eviction events *)

\* every entry other than that of k is what it was
OthersUntouched(k) ==
  /\ MapKeys(cache') \ {generateKey(k)} = MapKeys(cache) \ {generateKey(k)}
  /\ \A i \in 1..Len(cache) :
        cache[i].key # generateKey(k) => MapGet(cache', cache[i].key) = cache[i].item

\* the event the i-th get of mget(ks) emits, from the store before the call:
\* a hit for a live key, one 'expire' for an expired one and then misses
TypeOfRead(ks, i) ==
  IF Live(ks[i]) THEN "hit"
  ELSE IF Resident(ks[i]) /\ ~\E j \in 1..(i - 1) : ks[j] = ks[i] THEN "expire"
  ELSE "miss"

\* C33: every get(k) on an enabled cache adds exactly 1 to exactly one of
\* hitCount and missCount and emits exactly one event: 'miss' and missCount + 1
\* for an absent key; removal, 'expire' and missCount + 1 for an expired
\* entry; 'hit' with the value, hitCount + 1, accessCount + 1 and
\* lastAccessedAt = now for a live entry, with no other entry changed.
\* mget(keys) does the same once per key, in order, and its result holds
\* exactly the keys that were hit (the keys are plain names, none of them
\* '__proto__').
C33_GetCountsAndEmitsOnce ==
  [][/\ \A k \in inputs.keys : (CacheGet(k) /\ config.enabled) =>
          /\ Len(events') = 1
          /\ OthersUntouched(k)
          /\ IF ~Resident(k)
             THEN /\ missCount' = missCount + 1 /\ hitCount' = hitCount
                  /\ events' = <<Event("miss", k, Undefined)>>
                  /\ ret' = Null
                  /\ cache' = cache
             ELSE IF now > Item(k).expiresAt
             THEN /\ missCount' = missCount + 1 /\ hitCount' = hitCount
                  /\ events' = <<Event("expire", k, Undefined)>>
                  /\ ret' = Null
                  /\ ~MapHas(cache', generateKey(k))
             ELSE /\ hitCount' = hitCount + 1 /\ missCount' = missCount
                  /\ events' = <<Event("hit", k, Item(k).value)>>
                  /\ ret' = Item(k).value
                  /\ MapHas(cache', generateKey(k))
                  /\ ItemAfter(k).accessCount = Item(k).accessCount + 1
                  /\ ItemAfter(k).lastAccessedAt = now
                  /\ ItemAfter(k).value = Item(k).value
                  /\ ItemAfter(k).expiresAt = Item(k).expiresAt
                  /\ ItemAfter(k).createdAt = Item(k).createdAt
     /\ \A ks \in inputs.keyLists : (CacheMget(ks) /\ config.enabled) =>
          LET hits == {i \in 1..Len(ks) : TypeOfRead(ks, i) = "hit"} IN
          /\ Len(events') = Len(ks)
          /\ \A i \in 1..Len(ks) :
                /\ events'[i].key = ks[i]
                /\ events'[i].type = TypeOfRead(ks, i)
          /\ hitCount' = hitCount + Cardinality(hits)
          /\ missCount' = missCount + Len(ks) - Cardinality(hits)
          /\ DOMAIN ret' = {ks[i] : i \in hits}
          /\ \A i \in hits :
                /\ ret'[ks[i]] = Item(ks[i]).value
                /\ events'[i].value = Item(ks[i]).value
                /\ ItemAfter(ks[i]).lastAccessedAt = now
                /\ ItemAfter(ks[i]).accessCount
                     = Item(ks[i]).accessCount
                         + Cardinality({j \in hits : ks[j] = ks[i]})
          /\ \A i \in 1..Len(ks) :
                i \notin hits => ~MapHas(cache', generateKey(ks[i]))
          /\ \A i \in 1..Len(cache) :
                (\A j \in 1..Len(ks) : cache[i].key # generateKey(ks[j]))
                  => MapGet(cache', cache[i].key) = cache[i].item]_vars

\* an mget of a key that misses and of a live key read twice: one miss, two
\* hits, and a result that holds the live key only
C33_Witness ==
  /\ call.op = "mget"
  /\ config.enabled
  /\ Len(events) = 3
  /\ events[1].type = "miss" /\ events[2].type = "hit" /\ events[3].type = "hit"
  /\ DOMAIN ret = {events[2].key}
  /\ Item(events[2].key).accessCount >= 2

\* the stored keys of the entries that are expired now
ExpiredNow == {cache[i].key : i \in {j \in 1..Len(cache) : now > cache[j].item.expiresAt}}

\* C34: one run of the sweep removes all and only the entries with
\* now > expiresAt, emits exactly one 'expire' event with the unprefixed key
\* per removed entry and leaves the live entries, hitCount and missCount as
\* they were; the sweep runs only on an enabled cache whose timer was started
\* at construction and not yet stopped by the teardown, and the timer is never
\* started again; a get or has of an expired entry that the sweep has not
\* removed yet answers null / false.
C34_SweepRemovesExactlyTheExpired ==
  [][/\ cleanupExpired =>
          /\ config.enabled /\ timerOn
          /\ MapKeys(cache') = MapKeys(cache) \ ExpiredNow
          /\ \A i \in 1..Len(cache) :
                cache[i].key \notin ExpiredNow
                  => MapGet(cache', cache[i].key) = cache[i].item
          /\ Len(events') = Cardinality(ExpiredNow)
          /\ {config.keyPrefix \o events'[i].key : i \in 1..Len(events')} = ExpiredNow
          /\ \A i \in 1..Len(events') : events'[i].type = "expire"
          /\ hitCount' = hitCount /\ missCount' = missCount
     /\ timerOn' => (timerOn /\ config.enabled)
     /\ onModuleDestroy => ~timerOn'
     /\ \A k \in inputs.keys :
          (Resident(k) /\ now > Item(k).expiresAt) =>
             /\ CacheGet(k) => ret' = Null
             /\ CacheHas(k) => ret' = False]_vars

\* a sweep has removed one expired entry and kept a live one
C34_Witness ==
  /\ call.op = "sweep"
  /\ Len(events) = 1
  /\ events[1].type = "expire"
  /\ Len(cache) = 1
  /\ ~Resident(events[1].key)
  /\ now <= cache[1].item.expiresAt

\* C35: a set on a key that is already resident, live or expired, evicts
\* nothing even when the cache is full: the resident keys stay the same, every
\* other entry is untouched, no 'delete' event is emitted, the entry of the
\* key is replaced as a whole (the new value, createdAt = lastAccessedAt = now,
\* expiresAt = now + ttl, accessCount = 0) and exactly one 'set' event follows.
C35_OverwriteNeverEvicts ==
  [][\A k \in inputs.keys, v \in inputs.values, t \in inputs.ttls :
        (CacheSet(k, v, t) /\ config.enabled /\ Resident(k)) =>
           /\ MapKeys(cache') = MapKeys(cache)
           /\ Len(cache') = Len(cache)
           /\ OthersUntouched(k)
           /\ events' = <<Event("set", k, v)>>
           /\ ItemAfter(k).value = v
           /\ ItemAfter(k).createdAt = now
           /\ ItemAfter(k).lastAccessedAt = now
           /\ ItemAfter(k).accessCount = 0
           /\ ItemAfter(k).expiresAt
                = now + (IF t # NoNumber /\ t[1] # 0 THEN t[1] ELSE config.ttl) * MsPerSecond]_vars

\* the cache is full and the last set has replaced, with a single 'set' event,
\* the entry that was inserted first: it is now the more recently created one
C35_Witness ==
  /\ call.op = "set"
  /\ config.enabled
  /\ Len(cache) = config.maxSize
  /\ Len(cache) = 2
  /\ cache[1].key = generateKey(call.key)
  /\ cache[1].item.createdAt > cache[2].item.createdAt
  /\ cache[1].item.accessCount = 0
  /\ events = <<Event("set", call.key, cache[1].item.value)>>

\* C36 (as stated): a set of a new key on a full cache emits exactly one
\* 'delete' event, with the unprefixed key of the entry it evicts, before the
\* 'set' event; every set on an enabled cache emits exactly one 'set' event,
\* with the key and the value.
C36_FullCacheSetEmitsDeleteThenSet ==
  [][\A k \in inputs.keys, v \in inputs.values, t \in inputs.ttls :
        (CacheSet(k, v, t) /\ config.enabled) =>
           /\ Len(events') >= 1
           /\ events'[Len(events')] = Event("set", k, v)
           /\ \A i \in 1..(Len(events') - 1) : events'[i].type # "set"
           /\ (Len(cache) >= config.maxSize /\ ~Resident(k)) =>
                /\ Len(events') = 2
                /\ events'[1].type = "delete"
                /\ Evicted = {config.keyPrefix \o events'[1].key}]_vars

\* what holds of the events of a set: the 'set' event comes last and once, and
\* a 'delete' event precedes it exactly when an entry was evicted, whose
\* unprefixed key it carries
C36_DeleteOnlyWhenEvicted ==
  [][\A k \in inputs.keys, v \in inputs.values, t \in inputs.ttls :
        (CacheSet(k, v, t) /\ config.enabled) =>
           /\ events'[Len(events')] = Event("set", k, v)
           /\ IF Evicted = {}
              THEN Len(events') = 1
              ELSE /\ Len(events') = 2
                   /\ events'[1].type = "delete"
                   /\ Evicted = {config.keyPrefix \o events'[1].key}
                   /\ Len(cache) >= config.maxSize /\ ~Resident(k)]_vars

\* a set of a new key on a full cache has emitted its 'set' event only: every
\* resident entry was last accessed in the current millisecond, nothing was
\* evicted and the cache holds more than maxSize entries
C36_NoDeleteOnFullCache ==
  /\ call.op = "set"
  /\ config.enabled
  /\ Len(events) = 1
  /\ Len(cache) = config.maxSize + 1
  /\ cache[Len(cache)].key = generateKey(call.key)
  /\ \A i \in 1..Len(cache) : cache[i].item.lastAccessedAt = now

-----------------------------------------------------------------------------
(* Properties of the argument validation *)

\* the errors raised for an argument, before any request
ValidationErrors ==
  {ErrNameNotString, ErrNameEmpty, ErrNameTooLong, ErrNameChars, ErrNotArray, ErrNoDefault}

CacheUntouched == cache' = cache /\ hitCount' = hitCount /\ missCount' = missCount

\* C31: getSecretValue with an invalid name, getMultipleSecrets with an
\* argument that is not an array or with an invalid name anywhere in the list,
\* and getDefaultSecretValue without a configured default name each raise
\* their validation error with no remote call, no retry sleep, no call
\* started on their behalf and no change to the cache or to its counters.
C31_ValidationPrecedesEverything ==
  [][/\ \A i \in 1..Len(fetch) :
          (Begin(i) /\ validateSecretName(fetch[i].name) # NoError) =>
             /\ fetch'[i].pc = "raised"
             /\ fetch'[i].raised = validateSecretName(fetch[i].name)
             /\ fetch'[i].calls = 0 /\ fetch'[i].warns = 0
             /\ CacheUntouched
     /\ \A arg \in inputs.lists :
          (StartMulti(arg)
           /\ (~arg.isArray
               \/ \E i \in 1..Len(arg.items) : validateSecretName(arg.items[i]) # NoError)) =>
             /\ multi'.pc = "raised"
             /\ multi'.raised \in ValidationErrors
             /\ fetch' = fetch
             /\ CacheUntouched
     /\ (StartDefault /\ inputs.defaultSecretName = <<>>) =>
             /\ fetch'[Len(fetch')].pc = "raised"
             /\ fetch'[Len(fetch')].raised = ErrNoDefault
             /\ fetch'[Len(fetch')].calls = 0
             /\ CacheUntouched
     /\ \A i \in 1..Len(fetch') :
          fetch'[i].raised \in ValidationErrors
            => fetch'[i].calls = 0 /\ fetch'[i].warns = 0 /\ fetch'[i].attempt = 0
     /\ multi'.raised \in ValidationErrors
          => \A i \in 1..Len(fetch') : fetch'[i].owner # "multi"]_vars

\* all three calls have failed their validation next to a cached secret: no
\* remote call was made and the counters of the cache are still 0
C31_Witness ==
  /\ multi.pc = "raised" /\ multi.raised = ErrNameChars
  /\ Len(fetch) = 2
  /\ \A i \in 1..Len(fetch) :
        fetch[i].pc = "raised" /\ fetch[i].raised \in ValidationErrors /\ fetch[i].calls = 0
  /\ \E i \in 1..Len(fetch) : fetch[i].raised = ErrNoDefault
  /\ Len(cache) = 1
  /\ hitCount = 0 /\ missCount = 0

-----------------------------------------------------------------------------
(* Properties of the cache management calls of the client *)

\* caching is disabled for the client: no cache was injected, or the
\* injected one is not enabled
CachingDisabled == ~inputs.cacheInjected \/ ~config.enabled

\* C32 (as stated): getCacheStats returns null whenever caching is disabled
\* for the client, with no cache injected as well as with an injected cache
\* that is not enabled, and a statistics object only when caching is enabled;
\* clearSecretCache returns false and clearAllCache changes nothing when
\* caching is disabled.
C32_NullWheneverCachingDisabled ==
  /\ service.manage.op = "getCacheStats"
       => (service.manage.result = Null <=> CachingDisabled)
  /\ (service.manage.op = "clearSecretCache" /\ CachingDisabled)
       => service.manage.result = False
  /\ CachingDisabled => cache = <<>> /\ events = <<>> /\ hitCount = 0 /\ missCount = 0

\* what holds: getCacheStats returns null exactly when no cache was injected;
\* clearSecretCache returns false and clearAllCache changes nothing whenever
\* caching is disabled
C32_NullOnlyWithoutCache ==
  /\ service.manage.op = "getCacheStats"
       => (service.manage.result = Null <=> ~inputs.cacheInjected)
  /\ (service.manage.op = "clearSecretCache" /\ CachingDisabled)
       => service.manage.result = False
  /\ CachingDisabled => cache = <<>> /\ events = <<>> /\ hitCount = 0 /\ missCount = 0

\* getCacheStats has returned the statistics object of an injected cache
\* that is not enabled
C32_StatsOfDisabledCache ==
  /\ service.manage.op = "getCacheStats"
  /\ inputs.cacheInjected /\ ~config.enabled
  /\ service.manage.result = "stats"
  /\ call.op = "getStats"
  /\ ret.totalKeys = 0 /\ ret.hitRate = 0

-----------------------------------------------------------------------------
(* Properties of the cache as the client fills it *)

\* the secret data of a response: its data, the empty string without one
DataOf(r) == IF r.hasBody /\ r.hasData THEN r.data ELSE ""

\* no entry was created and no value was altered
NoValueWritten ==
  \A k \in 1..Len(cache') :
     /\ MapHas(cache, cache'[k].key)
     /\ MapGet(cache, cache'[k].key).value = cache'[k].item.value
     /\ MapGet(cache, cache'[k].key).createdAt = cache'[k].item.createdAt

\* C37: the client writes the cache only when a remote request has succeeded,
\* under the name of that request and with the secret data of its response
\* (the empty string when the response has no body or no secretData), so every
\* cached value is the result of a call for the same name that returned after
\* a remote request; a rejected attempt, a non-retryable error, the last
\* failed attempt, a retry and a failed name validation create no entry and
\* alter no value.
C37_CacheHoldsOnlyFetchedData ==
  [][/\ \A i \in 1..Len(fetch), r \in inputs.responses :
          RespondOk(i, r) =>
             /\ fetch'[i].result = DataOf(r)
             /\ IF ~fetch[i].skipCache /\ config.enabled
                THEN /\ MapHas(cache', config.keyPrefix \o fetch[i].name)
                     /\ ItemAfter(fetch[i].name).value = DataOf(r)
                     /\ OthersUntouched(fetch[i].name)
                ELSE cache' = cache
     /\ (\A i \in 1..Len(fetch), r \in inputs.responses : ~RespondOk(i, r))
          => NoValueWritten
     /\ \A i \in 1..Len(fetch), e \in inputs.errors, j \in inputs.jitters :
          RespondFail(i, e, j) => cache' = cache
     /\ \A i \in 1..Len(fetch) :
          (Begin(i) /\ validateSecretName(fetch[i].name) # NoError) => cache' = cache
     /\ \A k \in 1..Len(cache') :
          \E i \in 1..Len(fetch') :
             /\ fetch'[i].pc = "returned" /\ fetch'[i].calls >= 1 /\ ~fetch'[i].skipCache
             /\ config.keyPrefix \o fetch'[i].name = cache'[k].key
             /\ fetch'[i].result = cache'[k].item.value]_vars

\* the cache holds the empty string of a response without a body, and a call
\* for the other secret has given up after MaxRetries attempts without
\* leaving an entry
C37_Witness ==
  /\ Len(cache) = 1
  /\ cache[1].item.value = ""
  /\ \E i \in 1..Len(fetch) :
        /\ fetch[i].pc = "raised" /\ fetch[i].calls = MaxRetries /\ ~fetch[i].skipCache
        /\ config.keyPrefix \o fetch[i].name # cache[1].key

\* a clear of the secret "a" or of the whole cache has returned
Cleared == service.manage.op \in {"clearSecretCache", "clearAllCache"}

\* C38: once clearSecretCache(name) or clearAllCache() has returned, the cache
\* holds no value for the name that was fetched by a request in flight at the
\* clear (in SpecClear no request is issued after the first clear, so every
\* entry present after a clear holds such a value).
C38_ClearIsFinal == Cleared => ~Resident(<<"a">>)

\* after the clear the cache holds the value of a call whose request was in
\* flight when the cache was cleared
C38_StaleValueAfterClear ==
  /\ Cleared
  /\ Resident(<<"a">>)
  /\ \E i \in 1..Len(fetch) :
        /\ fetch[i].pc = "returned" /\ fetch[i].calls = 1
        /\ fetch[i].result = Item(<<"a">>).value

-----------------------------------------------------------------------------
(* Termination of the calls of the client *)

\* the remote calls made by the getSecretValue calls in the set
RECURSIVE RemoteCalls(_)
RemoteCalls(set) ==
  IF set = {} THEN 0
  ELSE LET i == CHOOSE j \in set : TRUE IN fetch[i].calls + RemoteCalls(set \ {i})

\* getMultipleSecrets has finished with all the names of a valid list
MultiSettled == multi.pc \in {"returned", "raised"} /\ Len(multi.unique) > 0

\* the calls of getMultipleSecrets that were not answered from the cache
NotFromCache == {i \in MultiCalls : ~(fetch[i].pc = "returned" /\ fetch[i].calls = 0)}

\* every call ever started comes to its end
EveryCallCompletes ==
  /\ \A i \in 1..(MaxNames + MaxCalls) :
        (Len(fetch) >= i) ~> (Len(fetch) >= i /\ Finished(fetch[i]))
  /\ (multi.pc = "running") ~> (multi.pc \in {"returned", "raised"})

\* no call makes more than 3 remote calls or sleeps more than twice
AtMostThreeCallsTwoSleeps ==
  \A i \in Calls : fetch[i].calls <= 3 /\ fetch[i].warns <= 2

\* C39: (as stated) every getSecretValue call completes after at most 3 remote
\* calls and 2 sleeps, and every getMultipleSecrets call over n distinct names
\* completes after at least n and at most 3n remote calls.
C39_AtLeastOneCallPerName ==
  /\ EveryCallCompletes
  /\ [](AtMostThreeCallsTwoSleeps)
  /\ [](MultiSettled =>
          /\ RemoteCalls(MultiCalls) >= Len(multi.unique)
          /\ RemoteCalls(MultiCalls) <= 3 * Len(multi.unique))

\* C39: (amended) every getSecretValue call completes after at most 3 remote
\* calls and 2 sleeps, and every getMultipleSecrets call over n distinct names
\* completes after at most 3n remote calls, one getSecretValue call per name;
\* in an initialised client it makes at least one remote call for every name
\* that is not answered from the cache, n when caching is disabled.
C39_AtLeastOneCallPerUncachedName ==
  /\ EveryCallCompletes
  /\ [](AtMostThreeCallsTwoSleeps)
  /\ [](MultiSettled =>
          /\ Cardinality(MultiCalls) = Len(multi.unique)
          /\ RemoteCalls(MultiCalls) <= 3 * Len(multi.unique)
          /\ inputs.initError = NoError =>
                /\ \A i \in NotFromCache : fetch[i].calls >= 1
                /\ RemoteCalls(MultiCalls) >= Cardinality(NotFromCache)
                /\ ~config.enabled => RemoteCalls(MultiCalls) >= Len(multi.unique))

\* getMultipleSecrets over "a" and "b" has ended after 4 remote calls, 3 of
\* them for "b" after 2 sleeps, while "a" was answered from the cache
C39_Witness ==
  /\ MultiSettled
  /\ RemoteCalls(MultiCalls) = 4
  /\ \E i \in MultiCalls : fetch[i].calls = 3 /\ fetch[i].warns = 2 /\ fetch[i].pc = "raised"
  /\ MultiCalls \ NotFromCache = {}
  /\ \E i \in Calls \ MultiCalls : fetch[i].pc = "returned" /\ fetch[i].calls = 0

-----------------------------------------------------------------------------
(* Properties of the result of getSecretsWithConfig *)

\* the result names of the entries are pairwise distinct and none is the key
\* of another entry
DistinctResultNames ==
  \A p, q \in 1..Len(batchCall.entries) :
     p # q => /\ aliasOf(batchCall.entries[p]) # aliasOf(batchCall.entries[q])
              /\ aliasOf(batchCall.entries[p]) # batchCall.entries[q].key

\* the counts of the result agree with its two maps
CountsAgree ==
  /\ batchCall.total = Len(batchCall.entries)
  /\ batchCall.successCount = Cardinality(DOMAIN batchCall.success)
  /\ batchCall.failureCount = Cardinality(DOMAIN batchCall.failed)

\* every entry is in exactly one of the two maps
Partitioned ==
  /\ DOMAIN batchCall.success \cap DOMAIN batchCall.failed = {}
  /\ batchCall.successCount + batchCall.failureCount = batchCall.total

\* C40: whenever getSecretsWithConfig returns normally, total is the number
\* of config entries, successCount = |success|, failureCount = |failed|, no
\* name is a key of both success and failed, and successCount + failureCount
\* = total, for every config map, with or without aliases; for the empty map
\* all counts are 0 and no remote call is made.
C40_CountsPartitionTheEntries ==
  batchCall.pc = "returned" =>
     /\ CountsAgree
     /\ Partitioned
     /\ Len(batchCall.entries) = 0 => batchCall.total = 0 /\ ConfigCalls = {}

\* the same for config maps whose result names are distinct
C40_CountsWithDistinctResultNames ==
  (batchCall.pc = "returned" /\ DistinctResultNames) =>
     /\ CountsAgree
     /\ Partitioned
     /\ Len(batchCall.entries) = 0 => batchCall.total = 0 /\ ConfigCalls = {}

\* the call has returned a result with two entries and one success, no failure
C40_EntryLost ==
  /\ batchCall.pc = "returned"
  /\ batchCall.total = 2 /\ batchCall.successCount = 1 /\ batchCall.failureCount = 0

\* the call has returned a result that has one name in both maps
C40_NameInBothMaps ==
  /\ batchCall.pc = "returned"
  /\ DOMAIN batchCall.success \cap DOMAIN batchCall.failed # {}

====
